---------------------------- MODULE Spec2Model ----------------------------
(***************************************************************************)
(* Model of the naim_update_app main process: the Command Gateway          *)
(* (NPConfig), the Debug Session Manager (ARMMfg), the Repository Sync     *)
(* Client (UpdateRepository) and the Update Orchestrator                   *)
(* (UpdaterStateMachine).                                                  *)
(*                                                                         *)
(* JavaScript runs every handler to completion on one thread, so one       *)
(* action of the model is one callback of the event loop.  A handler and   *)
(* everything it calls synchronously is an operator from a world record    *)
(* (all fields of all objects) to the world record it leaves behind.       *)
(*                                                                         *)
(* Strings are sequences of tokens; " " and "\n" are the whitespace        *)
(* tokens, every other token stands for a run of non-blank characters.     *)
(***************************************************************************)
EXTENDS Integers, Sequences, FiniteSets, TLC

\* ------------------------------------------------------------------------
\* Bounds of the model
\* ------------------------------------------------------------------------
\* requests a gateway client makes in one run
MaxRequests == 5
\* stdout chunks one child process writes
MaxChunks == 2
\* calls a debug-session client makes in one run
MaxCommands == 2
\* tokens the device sends on the debug port ahead of the closing prompt
MaxBodyLen == 3
\* object keys one repository listing returns
MaxKeys == 2
\* settle timers of the orchestrator that are armed and have not fired
MaxTimers == 1
\* stdout chunks a child process writes when the orchestrator runs it
MaxOutput == 1
\* repository listings that are under way at once
MaxLists == 1
\* chunks in which one response of the device reaches the orchestrator
MaxSplit == 2
\* settle timers of earlier visits still armed when DetectedAvailable is
\* entered again
MaxStale == 1

\* ------------------------------------------------------------------------
\* Null values
\* ------------------------------------------------------------------------
\* a callback field that holds null
NoCallback == 0
\* exit code of a process that was killed or timed out (null)
NullCode == -1
\* status of a streaming delivery that is not the last one (null)
NullStatus == -1
\* a string-valued field that holds null
Null == "null"
\* ARMMfg.port when it holds null
NoPort == 0
\* a device field (NPConfig.activeDevice, ARMMfg.device) that holds null
NullDevice == <<"null">>
\* productDetails / firmwareVersions when they hold null
NoDetails == [set |-> FALSE, props |-> <<>>]
\* the null payload reprogApp hands to its callback when no device is set
NullData == <<"null">>

\* ------------------------------------------------------------------------
\* String helpers (String.prototype.trim, String.prototype.split('\n'))
\* ------------------------------------------------------------------------
IsSpace(c) == c \in {" ", "\n"}

RECURSIVE TrimStart(_)
TrimStart(s) ==
  IF s = <<>> THEN <<>>
  ELSE IF IsSpace(Head(s)) THEN TrimStart(Tail(s)) ELSE s

RECURSIVE TrimEnd(_)
TrimEnd(s) ==
  IF s = <<>> THEN <<>>
  ELSE IF IsSpace(s[Len(s)]) THEN TrimEnd(SubSeq(s, 1, Len(s) - 1)) ELSE s

Trim(s) == TrimEnd(TrimStart(s))

\* s.split('\n'): the empty string gives one empty line
RECURSIVE Split(_)
Split(s) ==
  IF s = <<>> THEN << <<>> >>
  ELSE IF Head(s) = "\n" THEN << <<>> >> \o Split(Tail(s))
  ELSE LET r == Split(Tail(s)) IN << <<Head(s)>> \o Head(r) >> \o Tail(r)

\* arr.splice(-1, 0, ...items): start = max(len - 1, 0), nothing removed
SpliceBeforeLast(arr, items) ==
  IF Len(arr) = 0 THEN items
  ELSE SubSeq(arr, 1, Len(arr) - 1) \o items \o <<arr[Len(arr)]>>

\* ------------------------------------------------------------------------
\* State
\* ------------------------------------------------------------------------
VARIABLES
  \* NPConfig
  bufferedCallback, streamingCallback, bufferedData, activeDevice,
  commandQueue,
  \* child processes spawned by NPConfig.run and not yet closed
  procs,
  \* ARMMfg
  device, port, dataCallback, responseData,
  \* SerialPort objects created by ARMMfg.runCommand and not yet closed
  ports,
  \* UpdateRepository: listObjectsV2 requests outstanding, the batch objects
  \* still referenced, getObject requests outstanding
  lists, batches, downloads,
  \* UpdaterStateMachine
  currentState, productDetails, firmwareVersions, onStateChange,
  \* setTimeout timers armed by startTimer that have not fired
  timers,
  \* start() has been called
  running,
  \* what the last step did: effects in order, and the value it returned
  out, ret,
  \* the operation of the last step and its inputs
  last,
  \* gateway client: number of the next request
  nextId,
  \* history: requests in the order accepted, commands in the order started
  accepted, started

vars == <<bufferedCallback, streamingCallback, bufferedData, activeDevice,
          commandQueue, procs, device, port, dataCallback, responseData,
          ports, lists, batches, downloads, currentState, productDetails,
          firmwareVersions, onStateChange, timers, running, out, ret, last, nextId, accepted, started>>

\* the fields every handler may read and write
World ==
  [bufferedCallback |-> bufferedCallback,
   streamingCallback |-> streamingCallback,
   bufferedData |-> bufferedData,
   activeDevice |-> activeDevice,
   commandQueue |-> commandQueue,
   procs |-> procs,
   device |-> device,
   port |-> port,
   dataCallback |-> dataCallback,
   responseData |-> responseData,
   ports |-> ports,
   lists |-> lists,
   batches |-> batches,
   downloads |-> downloads,
   currentState |-> currentState,
   productDetails |-> productDetails,
   firmwareVersions |-> firmwareVersions,
   onStateChange |-> onStateChange,
   timers |-> timers,
   out |-> <<>>,
   ret |-> ret]

Commit(w) ==
  /\ bufferedCallback' = w.bufferedCallback
  /\ streamingCallback' = w.streamingCallback
  /\ bufferedData' = w.bufferedData
  /\ activeDevice' = w.activeDevice
  /\ commandQueue' = w.commandQueue
  /\ procs' = w.procs
  /\ device' = w.device
  /\ port' = w.port
  /\ dataCallback' = w.dataCallback
  /\ responseData' = w.responseData
  /\ ports' = w.ports
  /\ lists' = w.lists
  /\ batches' = w.batches
  /\ downloads' = w.downloads
  /\ currentState' = w.currentState
  /\ productDetails' = w.productDetails
  /\ firmwareVersions' = w.firmwareVersions
  /\ onStateChange' = w.onStateChange
  /\ timers' = w.timers
  /\ out' = w.out
  /\ ret' = w.ret

Emit(w, e) == [w EXCEPT !.out = Append(@, e)]

\* ------------------------------------------------------------------------
\* Callbacks handed to the adapters
\* ------------------------------------------------------------------------
RECURSIVE CallBuffered(_, _, _, _)
RECURSIVE CallStreaming(_, _, _, _)
RECURSIVE CallSerial(_, _, _)
RECURSIVE CallList(_, _, _)
RECURSIVE CallDownload(_, _, _, _, _)

RemoveAt(s, i) == SubSeq(s, 1, i - 1) \o SubSeq(s, i + 1, Len(s))

\* ------------------------------------------------------------------------
\* NPConfig (Command Gateway)
\* ------------------------------------------------------------------------
maxCommandQueueLength == 2

SetDefaultDevice(w, dev) ==
  IF w.activeDevice = NullDevice THEN [w EXCEPT !.activeDevice = dev] ELSE w

SelectDevice(w, dev) == [w EXCEPT !.activeDevice = dev]

\* spawn the utility; stdout, close and error handlers are bound to the gateway
Run(w, args) ==
  LET w1 == Emit(w, [t |-> "spawn", args |-> args])
  IN [w1 EXCEPT !.procs = Append(@, [args |-> args, chunks |-> 0]),
                !.ret = TRUE]

\* the queue-room test off by one: a third command is queued
RunBuffered_QueueOffByOne(w, args, callback) ==
  IF w.bufferedCallback = NoCallback /\ w.streamingCallback = NoCallback
  THEN Run([w EXCEPT !.bufferedCallback = callback, !.bufferedData = <<>>],
           args)
  ELSE IF Len(w.commandQueue) <= maxCommandQueueLength
  THEN [w EXCEPT !.commandQueue =
                     Append(@, [parameters |-> args, handler |-> callback]),
                 !.ret = TRUE]
  ELSE [w EXCEPT !.ret = FALSE]

\* the buffer is not emptied when a command starts
RunBuffered_KeepsBuffer(w, args, callback) ==
  IF w.bufferedCallback = NoCallback /\ w.streamingCallback = NoCallback
  THEN Run([w EXCEPT !.bufferedCallback = callback], args)
  ELSE IF Len(w.commandQueue) < maxCommandQueueLength
  THEN [w EXCEPT !.commandQueue =
                     Append(@, [parameters |-> args, handler |-> callback]),
                 !.ret = TRUE]
  ELSE [w EXCEPT !.ret = FALSE]

RunBuffered(w, args, callback) ==
  IF w.bufferedCallback = NoCallback /\ w.streamingCallback = NoCallback
  THEN Run([w EXCEPT !.bufferedCallback = callback, !.bufferedData = <<>>],
           args)
  ELSE IF Len(w.commandQueue) < maxCommandQueueLength
  THEN [w EXCEPT !.commandQueue =
                     Append(@, [parameters |-> args, handler |-> callback]),
                 !.ret = TRUE]
  ELSE [w EXCEPT !.ret = FALSE]

\* the busy test looks at the streaming callback only
RunStreaming_NoBufferedCheck(w, args, callback) ==
  IF w.streamingCallback = NoCallback
  THEN Run([w EXCEPT !.streamingCallback = callback], args)
  ELSE [w EXCEPT !.ret = FALSE]

\* a streaming request that finds the gateway busy is queued like a buffered one
RunStreaming_Queues(w, args, callback) ==
  IF w.bufferedCallback = NoCallback /\ w.streamingCallback = NoCallback
  THEN Run([w EXCEPT !.streamingCallback = callback], args)
  ELSE IF Len(w.commandQueue) < maxCommandQueueLength
  THEN [w EXCEPT !.commandQueue =
                     Append(@, [parameters |-> args, handler |-> callback]),
                 !.ret = TRUE]
  ELSE [w EXCEPT !.ret = FALSE]

RunStreaming(w, args, callback) ==
  IF w.bufferedCallback = NoCallback /\ w.streamingCallback = NoCallback
  THEN Run([w EXCEPT !.streamingCallback = callback], args)
  ELSE [w EXCEPT !.ret = FALSE]

OnStdout(w, data) ==
  IF w.streamingCallback # NoCallback
  THEN CallStreaming(w, w.streamingCallback, Trim(data), NullStatus)
  ELSE IF w.bufferedCallback # NoCallback
  THEN [w EXCEPT !.bufferedData = SpliceBeforeLast(@, Split(Trim(data)))]
  ELSE w

\* the exit code is handed on as it came, null included
OnClose_NoCoercion(w, code) ==
  LET result == code
      w1 == IF w.streamingCallback # NoCallback
            THEN [CallStreaming(w, w.streamingCallback, <<>>, result)
                    EXCEPT !.streamingCallback = NoCallback]
            ELSE IF w.bufferedCallback # NoCallback
            THEN [CallBuffered(w, w.bufferedCallback, w.bufferedData, result)
                    EXCEPT !.bufferedCallback = NoCallback]
            ELSE w
  IN IF Len(w1.commandQueue) > 0
     THEN LET command == w1.commandQueue[1]
              w2 == [w1 EXCEPT !.commandQueue = Tail(@)]
          IN [RunBuffered(w2, command.parameters, command.handler)
                EXCEPT !.ret = w1.ret]
     ELSE w1

\* the newest queued command is taken instead of the oldest
OnClose_TakesLast(w, code) ==
  LET result == IF code = NullCode THEN 1 ELSE code
      w1 == IF w.streamingCallback # NoCallback
            THEN [CallStreaming(w, w.streamingCallback, <<>>, result)
                    EXCEPT !.streamingCallback = NoCallback]
            ELSE IF w.bufferedCallback # NoCallback
            THEN [CallBuffered(w, w.bufferedCallback, w.bufferedData, result)
                    EXCEPT !.bufferedCallback = NoCallback]
            ELSE w
  IN IF Len(w1.commandQueue) > 0
     THEN LET command == w1.commandQueue[Len(w1.commandQueue)]
              w2 == [w1 EXCEPT !.commandQueue =
                                  SubSeq(@, 1, Len(@) - 1)]
          IN [RunBuffered(w2, command.parameters, command.handler)
                EXCEPT !.ret = w1.ret]
     ELSE w1

\* the streaming callback stays in force after the last call
OnClose_KeepsStreaming(w, code) ==
  LET result == IF code = NullCode THEN 1 ELSE code
      w1 == IF w.streamingCallback # NoCallback
            THEN CallStreaming(w, w.streamingCallback, <<>>, result)
            ELSE IF w.bufferedCallback # NoCallback
            THEN [CallBuffered(w, w.bufferedCallback, w.bufferedData, result)
                    EXCEPT !.bufferedCallback = NoCallback]
            ELSE w
  IN IF Len(w1.commandQueue) > 0
     THEN LET command == w1.commandQueue[1]
              w2 == [w1 EXCEPT !.commandQueue = Tail(@)]
          IN [RunBuffered(w2, command.parameters, command.handler)
                EXCEPT !.ret = w1.ret]
     ELSE w1

\* the queue is left for the next request to look at
OnClose_LeavesQueue(w, code) ==
  LET result == IF code = NullCode THEN 1 ELSE code
  IN IF w.streamingCallback # NoCallback
     THEN [CallStreaming(w, w.streamingCallback, <<>>, result)
             EXCEPT !.streamingCallback = NoCallback]
     ELSE IF w.bufferedCallback # NoCallback
     THEN [CallBuffered(w, w.bufferedCallback, w.bufferedData, result)
             EXCEPT !.bufferedCallback = NoCallback]
     ELSE w

\* the first queued command is taken off the queue and not run
OnClose_DropsHead(w, code) ==
  LET result == IF code = NullCode THEN 1 ELSE code
      w1 == IF w.streamingCallback # NoCallback
            THEN [CallStreaming(w, w.streamingCallback, <<>>, result)
                    EXCEPT !.streamingCallback = NoCallback]
            ELSE IF w.bufferedCallback # NoCallback
            THEN [CallBuffered(w, w.bufferedCallback, w.bufferedData, result)
                    EXCEPT !.bufferedCallback = NoCallback]
            ELSE w
  IN IF Len(w1.commandQueue) > 0
     THEN [w1 EXCEPT !.commandQueue = Tail(@)]
     ELSE w1

OnClose(w, code) ==
  LET result == IF code = NullCode THEN 1 ELSE code
      w1 == IF w.streamingCallback # NoCallback
            THEN [CallStreaming(w, w.streamingCallback, <<>>, result)
                    EXCEPT !.streamingCallback = NoCallback]
            ELSE IF w.bufferedCallback # NoCallback
            THEN [CallBuffered(w, w.bufferedCallback, w.bufferedData, result)
                    EXCEPT !.bufferedCallback = NoCallback]
            ELSE w
  IN IF Len(w1.commandQueue) > 0
     THEN LET command == w1.commandQueue[1]
              w2 == [w1 EXCEPT !.commandQueue = Tail(@)]
          IN [RunBuffered(w2, command.parameters, command.handler)
                EXCEPT !.ret = w1.ret]
     ELSE w1

\* the callbacks the orchestrator hands to its adapters
CbOnVersion == 101
CbOnDevices == 102
CbOnDiscovery == 103
CbOnReprogramming == 104
CbOnCommandResponse == 105
CbOnRepositoryList == 106
CbOnRepositoryDownload == 107

appImagePath == "Application.srec"

Version(w, callback) == RunBuffered(w, <<"-v">>, callback)

Devices(w, callback) == RunBuffered(w, <<"-x">>, callback)

\* without a device the request is refused and the callback left alone
Discover_NoCallback(w, callback) ==
  IF w.activeDevice # NullDevice
  THEN RunBuffered(w, <<"-r ">> \o w.activeDevice, callback)
  ELSE [w EXCEPT !.ret = FALSE]

Discover(w, callback) ==
  IF w.activeDevice # NullDevice
  THEN RunBuffered(w, <<"-r ">> \o w.activeDevice, callback)
  ELSE [CallBuffered(w, callback, <<>>, 1) EXCEPT !.ret = FALSE]

ReprogApp(w, callback) ==
  IF w.activeDevice # NullDevice
  THEN RunStreaming(w, <<"-p ", appImagePath>> \o w.activeDevice, callback)
  ELSE [CallStreaming(w, callback, NullData, 1) EXCEPT !.ret = FALSE]

\* ------------------------------------------------------------------------
\* ARMMfg (Debug Session Manager)
\* ------------------------------------------------------------------------
\* the debug port prompt that ends a response
Sentinel == <<"-">>

SetDevice(w, dev) == [w EXCEPT !.device = dev]

\* port.close(): the transport object is gone
ClosePort(w) ==
  IF w.port # NoPort THEN [w EXCEPT !.ports = RemoveAt(@, w.port)] ELSE w

\* the prompt test leaves out the last line and looks at the first
OnData_ChecksFirstLine(w, data) ==
  LET value == Trim(data)
      w1 == [w EXCEPT !.responseData = @ \o value]
      lines == Split(w1.responseData)
  IN IF Len(lines) > 0 /\ lines[1] = Sentinel
     THEN LET w2 == IF w1.dataCallback # NoCallback
                    THEN CallSerial(w1, w1.dataCallback, lines)
                    ELSE w1
          IN [ClosePort(w2) EXCEPT !.port = NoPort,
                                   !.dataCallback = NoCallback]
     ELSE w1

OnData(w, data) ==
  LET value == Trim(data)
      w1 == [w EXCEPT !.responseData = @ \o value]
      lines == Split(w1.responseData)
  IN IF Len(lines) > 0 /\ lines[Len(lines)] = Sentinel
     THEN LET w2 == IF w1.dataCallback # NoCallback
                    THEN CallSerial(w1, w1.dataCallback, lines)
                    ELSE w1
          IN [ClosePort(w2) EXCEPT !.port = NoPort,
                                   !.dataCallback = NoCallback]
     ELSE w1

\* the test for a command in progress is missing
RunCommand_NoPortCheck(w, command, callback) ==
  IF w.device = NullDevice THEN [w EXCEPT !.ret = FALSE]
  ELSE
    LET w1 == Emit(w, [t |-> "open", path |-> w.device, command |-> command])
    IN [w1 EXCEPT
          !.ports = Append(@, [path |-> w.device, status |-> "opening",
                               write |-> "pending", command |-> command,
                               sent |-> <<>>, wire |-> <<>>, chunks |-> 0]),
          !.port = Len(w.ports) + 1,
          !.responseData = <<>>,
          !.dataCallback = callback,
          !.ret = TRUE]

\* The callbacks given to new SerialPort and to port.write run from the
\* event loop after runCommand has returned (SerialOpenDone, SerialWriteDone
\* below), so `result` is still true at both tests that follow them: the
\* port stays assigned and true is returned.
RunCommand(w, command, callback) ==
  IF w.port # NoPort THEN [w EXCEPT !.ret = FALSE]
  ELSE IF w.device = NullDevice THEN [w EXCEPT !.ret = FALSE]
  ELSE
    LET w1 == Emit(w, [t |-> "open", path |-> w.device, command |-> command])
    IN [w1 EXCEPT
          !.ports = Append(@, [path |-> w.device, status |-> "opening",
                               write |-> "pending", command |-> command,
                               sent |-> <<>>, wire |-> <<>>, chunks |-> 0]),
          !.port = Len(w.ports) + 1,
          !.responseData = <<>>,
          !.dataCallback = callback,
          !.ret = TRUE]

\* ------------------------------------------------------------------------
\* UpdateRepository (Repository Sync Client)
\* ------------------------------------------------------------------------
\* s3.listObjectsV2 is sent; its callback runs later (RepoListDone)
DoGetFileList(w, callback) == [w EXCEPT !.lists = Append(@, callback)]

GetPackageIndexFiles(w, callback) == DoGetFileList(w, callback)

\* s3.getObject is sent; its callback runs later (DoDownloadDone)
DoDownloadFile(w, objectKey, callback, batch) ==
  [w EXCEPT !.downloads =
              Append(@, [key |-> objectKey, callback |-> callback,
                         batch |-> batch])]

RECURSIVE DownloadEach(_, _, _, _)
DownloadEach(w, objectKeys, callback, batch) ==
  IF objectKeys = <<>> THEN w
  ELSE DownloadEach(DoDownloadFile(w, Head(objectKeys), callback, batch),
                    Tail(objectKeys), callback, batch)

\* a batch object is allocated; it lives while a download refers to it
NewBatch(w) == CHOOSE b \in 1..(Cardinality(DOMAIN w.batches) + 1) :
                 b \notin DOMAIN w.batches

DownloadFiles(w, objectKeys, callback) ==
  LET b == NewBatch(w)
      w1 == [w EXCEPT !.batches =
                        [x \in DOMAIN @ \cup {b} |->
                           IF x = b
                           THEN [completed |-> 0, count |-> Len(objectKeys),
                                 success |-> 0]
                           ELSE @[x]]]
  IN DownloadEach(w1, objectKeys, callback, b)

\* the batch object is unreachable once its last download has reported
Collect(w, b) ==
  IF \E k \in DOMAIN w.downloads : w.downloads[k].batch = b THEN w
  ELSE [w EXCEPT !.batches = [x \in DOMAIN @ \ {b} |-> @[x]]]

\* completed is advanced for successful downloads only
DoDownloadDone_CountsSuccessOnly(w, i, res) ==
  LET dl == w.downloads[i]
      b == dl.batch
      w1 == [w EXCEPT !.downloads = RemoveAt(@, i),
                      !.batches[b].completed = @ + (IF res THEN 1 ELSE 0),
                      !.batches[b].success = @ + (IF res THEN 1 ELSE 0)]
      w2 == CallDownload(w1, dl.callback, dl.key, res, b)
  IN Collect(w2, b)

\* the success total is advanced for every download
DoDownloadDone_SuccessAlways(w, i, res) ==
  LET dl == w.downloads[i]
      b == dl.batch
      w1 == [w EXCEPT !.downloads = RemoveAt(@, i),
                      !.batches[b].completed = @ + 1,
                      !.batches[b].success = @ + 1]
      w2 == CallDownload(w1, dl.callback, dl.key, res, b)
  IN Collect(w2, b)

\* the callback of s3.getObject for download i; res is true when a body
\* came back and was written to the file
DoDownloadDone(w, i, res) ==
  LET dl == w.downloads[i]
      b == dl.batch
      w1 == [w EXCEPT !.downloads = RemoveAt(@, i),
                      !.batches[b].completed = @ + 1,
                      !.batches[b].success = @ + (IF res THEN 1 ELSE 0)]
      w2 == CallDownload(w1, dl.callback, dl.key, res, b)
  IN Collect(w2, b)

\* ------------------------------------------------------------------------
\* Product (parsing of the adapters' line output)
\* ------------------------------------------------------------------------
productPropertyLookup ==
  [k \in {"Product Type", "Serial Number"} |->
     IF k = "Product Type" THEN "modelName" ELSE "serialNumber"]

firwmareVersionLookup ==
  [k \in {"app", "bl1", "bl2"} |->
     IF k = "app" THEN "application" ELSE IF k = "bl1" THEN "bsl1" ELSE "bsl2"]

\* the fields of s between separators sep (String.prototype.split)
RECURSIVE Fields(_, _)
Fields(s, sep) ==
  IF s = <<>> THEN << <<>> >>
  ELSE IF Head(s) = sep THEN << <<>> >> \o Fields(Tail(s), sep)
  ELSE LET r == Fields(Tail(s), sep)
       IN << <<Head(s)>> \o Head(r) >> \o Tail(r)

\* one <<property, value>> per line "key: value" with a key of the table;
\* a known key on a line without ':' (value.trim() throws) is not produced
\* by the utility
RECURSIVE NpconfigProps(_)
NpconfigProps(data) ==
  IF data = <<>> THEN <<>>
  ELSE LET f == Fields(Head(data), ":")
           key == Trim(f[1])
       IN (IF Len(key) = 1 /\ key[1] \in DOMAIN productPropertyLookup
              /\ Len(f) >= 2
           THEN << <<productPropertyLookup[key[1]], Trim(f[2])>> >>
           ELSE <<>>) \o NpconfigProps(Tail(data))

NpconfigToProductDetails(data) == [set |-> TRUE, props |-> NpconfigProps(data)]

\* the non-empty runs of non-blank tokens of a line; a line that starts with
\* a blank has an empty first field under split(/\s+/) and so no key
RECURSIVE MfgProps(_)
MfgProps(data) ==
  IF data = <<>> THEN <<>>
  ELSE LET f == SelectSeq(Fields(Head(data), " "), LAMBDA x : x # <<>>)
           line == Head(data)
       IN (IF line # <<>> /\ line[1] # " " /\ Len(f) >= 1 /\ Len(f[1]) = 1
              /\ f[1][1] \in DOMAIN firwmareVersionLookup
           THEN << <<firwmareVersionLookup[f[1][1]],
                     IF Len(f) >= 2 THEN f[2] ELSE <<"undefined">>,
                     IF Len(f) >= 3 THEN f[3] ELSE <<"undefined">> >> >>
           ELSE <<>>) \o MfgProps(Tail(data))

MfgToFirmwareVersions(data) == [set |-> TRUE, props |-> MfgProps(data)]

\* ------------------------------------------------------------------------
\* UpdaterStateMachine (Update Orchestrator)
\* ------------------------------------------------------------------------
\* IPC.States
Welcome == "welcome"
CheckingForUpdate == "checking"
CheckFailedOffline == "offline"
CheckFailedCached == "cached"
ConnectPrompt == "connect"
Detecting == "detecting"
DetectionFailed == "noproduct"
DetectingManual == "manualselect"
DetectedCurrent == "current"
DetectedAvailable == "available"
Updating == "updating"
UpdateComplete == "updatecomplete"
UpdateFailed == "updatefailed"

States == {Welcome, CheckingForUpdate, CheckFailedOffline, CheckFailedCached,
           ConnectPrompt, Detecting, DetectionFailed, DetectingManual,
           DetectedCurrent, DetectedAvailable, Updating, UpdateComplete,
           UpdateFailed}

\* Lifecycle
Enter == "enter"
Exit == "exit"
Timeout == "timeout"

\* Controls
UpdateCheckSuccess == "check-success"
UpdateCheckFailure == "check-failure"
DiscoverySuccess == "discovery-success"
DiscoveryFailure == "discovery-failure"
ReprogrammingSuccess == "reprogramming-success"
ReprogrammingFailure == "reprogramming-failure"

\* IPC.Commands
Continue == "continue"
Retry == "retry"
Restart == "restart"
Select == "select"
Install == "install"
Connect == "connect"

Commands == {Continue, Retry, Restart, Select, Install, Connect}

\* IPC.Configs
AvailableDevices == 0
SelectedDevice == 1
ProductDetails == 2
FirmwareVersions == 3
ReprogProgress == 4

SendStateChange(w, state) == Emit(w, [t |-> "state", state |-> state])

SendConfig(w, config, value) ==
  Emit(w, [t |-> "config", config |-> config, value |-> value])

RECURSIVE InjectEvent(_, _)
RECURSIVE EnterState(_, _)

StartTimer(w) == [w EXCEPT !.timers = @ + 1]

StateWelcome(w, event) ==
  CASE event = Continue -> EnterState(w, CheckingForUpdate)
    [] OTHER -> w

\* a failed check is taken to leave nothing usable in the cache
StateChecking_FailsOffline(w, event) ==
  CASE event = Enter -> GetPackageIndexFiles(w, CbOnRepositoryList)
    [] event = UpdateCheckSuccess -> EnterState(w, ConnectPrompt)
    [] event = UpdateCheckFailure -> EnterState(w, CheckFailedOffline)
    [] OTHER -> w

\* Restart abandons the check
StateChecking_Restarts(w, event) ==
  CASE event = Enter -> GetPackageIndexFiles(w, CbOnRepositoryList)
    [] event = UpdateCheckSuccess -> EnterState(w, ConnectPrompt)
    [] event = UpdateCheckFailure -> EnterState(w, CheckFailedCached)
    [] event = Restart -> EnterState(w, Welcome)
    [] OTHER -> w

StateChecking(w, event) ==
  CASE event = Enter -> GetPackageIndexFiles(w, CbOnRepositoryList)
    [] event = UpdateCheckSuccess -> EnterState(w, ConnectPrompt)
    [] event = UpdateCheckFailure -> EnterState(w, CheckFailedCached)
    [] OTHER -> w

\* Retry is left to the cached case
StateCheckingOffline_NoRetry(w, event) == w

StateCheckingOffline(w, event) ==
  CASE event = Retry -> EnterState(w, CheckingForUpdate)
    [] OTHER -> w

StateCheckingCached(w, event) ==
  CASE event = Retry -> EnterState(w, CheckingForUpdate)
    [] event = Continue -> EnterState(w, ConnectPrompt)
    [] OTHER -> w

StateConnecting(w, event) ==
  CASE event = Retry -> EnterState(w, CheckingForUpdate)
    [] event = Continue -> EnterState(w, Detecting)
    [] OTHER -> w

\* a successful discovery is taken to find the product up to date
StateDetecting_EntersCurrent(w, event) ==
  CASE event = Enter ->
         LET w1 == Discover(w, CbOnDiscovery)
         IN Emit(w1, [t |-> "call", op |-> "discover", ret |-> w1.ret])
    [] event = DiscoverySuccess -> EnterState(w, DetectedCurrent)
    [] event = DiscoveryFailure -> EnterState(w, DetectionFailed)
    [] OTHER -> w

StateDetecting(w, event) ==
  CASE event = Enter ->
         LET w1 == Discover(w, CbOnDiscovery)
         IN Emit(w1, [t |-> "call", op |-> "discover", ret |-> w1.ret])
    [] event = DiscoverySuccess -> EnterState(w, DetectedAvailable)
    [] event = DiscoveryFailure -> EnterState(w, DetectionFailed)
    [] OTHER -> w

\* Install is accepted although no product was detected
StateDetectionFailed_Installs(w, event) ==
  CASE event = Retry -> EnterState(w, Detecting)
    [] event = Continue -> EnterState(w, DetectingManual)
    [] event = Install -> EnterState(w, Updating)
    [] OTHER -> w

StateDetectionFailed(w, event) ==
  CASE event = Retry -> EnterState(w, Detecting)
    [] event = Continue -> EnterState(w, DetectingManual)
    [] OTHER -> w

StateDetectionManual(w, event) ==
  CASE event = Enter ->
         LET w1 == Devices(w, CbOnDevices)
         IN Emit(w1, [t |-> "call", op |-> "devices", ret |-> w1.ret])
    [] event = Connect -> EnterState(w, Detecting)
    [] OTHER -> w

StateDetectionAvailable(w, event) ==
  CASE event = Enter -> StartTimer(w)
    [] event = Timeout ->
         IF w.productDetails.set
         THEN LET w1 == SendConfig(w, ProductDetails, w.productDetails)
                  w2 == RunCommand(w1, <<"version", " ", "host">>,
                                   CbOnCommandResponse)
              IN Emit(w2, [t |-> "call", op |-> "runCommand",
                           ret |-> w2.ret])
         ELSE w
    [] event = Install -> EnterState(w, Updating)
    [] OTHER -> w

StateDetectionCurrent(w, event) ==
  CASE event = Restart -> EnterState(w, Welcome)
    [] OTHER -> w

\* a timeout during the update is taken for a failed update
StateUpdating_TimeoutFails(w, event) ==
  CASE event = Enter ->
         LET w1 == ReprogApp(w, CbOnReprogramming)
         IN Emit(w1, [t |-> "call", op |-> "reprogApp", ret |-> w1.ret])
    [] event = Timeout -> EnterState(w, UpdateFailed)
    [] event = ReprogrammingSuccess -> EnterState(w, UpdateComplete)
    [] event = ReprogrammingFailure -> EnterState(w, UpdateFailed)
    [] OTHER -> w

StateUpdating(w, event) ==
  CASE event = Enter ->
         LET w1 == ReprogApp(w, CbOnReprogramming)
         IN Emit(w1, [t |-> "call", op |-> "reprogApp", ret |-> w1.ret])
    [] event = ReprogrammingSuccess -> EnterState(w, UpdateComplete)
    [] event = ReprogrammingFailure -> EnterState(w, UpdateFailed)
    [] OTHER -> w

StateUpdateComplete(w, event) ==
  CASE event = Restart -> EnterState(w, Welcome)
    [] OTHER -> w

StateUpdateFailed(w, event) ==
  CASE event = Restart -> EnterState(w, Welcome)
    [] OTHER -> w

\* the StateTable built by the constructor
StateTable(w, state, event) ==
  CASE state = Welcome -> StateWelcome(w, event)
    [] state = CheckingForUpdate -> StateChecking(w, event)
    [] state = CheckFailedOffline -> StateCheckingOffline(w, event)
    [] state = CheckFailedCached -> StateCheckingCached(w, event)
    [] state = ConnectPrompt -> StateConnecting(w, event)
    [] state = Detecting -> StateDetecting(w, event)
    [] state = DetectionFailed -> StateDetectionFailed(w, event)
    [] state = DetectingManual -> StateDetectionManual(w, event)
    [] state = DetectedAvailable -> StateDetectionAvailable(w, event)
    [] state = DetectedCurrent -> StateDetectionCurrent(w, event)
    [] state = Updating -> StateUpdating(w, event)
    [] state = UpdateComplete -> StateUpdateComplete(w, event)
    [] state = UpdateFailed -> StateUpdateFailed(w, event)
    [] OTHER -> w

\* the effects record where the injection starts and, once the handler has
\* returned, where it ends and which state is current by then
InjectEvent(w, event) ==
  LET w1 == Emit(w, [t |-> "inject", state |-> w.currentState,
                     event |-> event])
      w2 == IF w1.currentState # Null /\ w1.currentState \in States
            THEN StateTable(w1, w1.currentState, event)
            ELSE w1
  IN Emit(w2, [t |-> "handled", state |-> w.currentState, event |-> event,
               now |-> w2.currentState])

\* the test for a transition to the state already current is missing
EnterState_NoGuard(w, newState) ==
  LET w1 == SendStateChange(w, newState)
      w2 == IF w1.currentState # Null THEN InjectEvent(w1, Exit) ELSE w1
      w3 == [w2 EXCEPT !.currentState = newState]
      w4 == InjectEvent(w3, Enter)
  IN IF w4.onStateChange
     THEN Emit(w4, [t |-> "hook", state |-> newState])
     ELSE w4

\* the notification is sent once the new state has been entered
EnterState_NotifiesAfterEnter(w, newState) ==
  IF w.currentState # newState
  THEN LET w2 == IF w.currentState # Null THEN InjectEvent(w, Exit) ELSE w
           w3 == [w2 EXCEPT !.currentState = newState]
           w4 == SendStateChange(InjectEvent(w3, Enter), newState)
       IN IF w4.onStateChange
          THEN Emit(w4, [t |-> "hook", state |-> newState])
          ELSE w4
  ELSE w

\* the notification names the state that is left
EnterState_NotifiesOld(w, newState) ==
  IF w.currentState # newState
  THEN LET w1 == SendStateChange(w, w.currentState)
           w2 == IF w1.currentState # Null THEN InjectEvent(w1, Exit) ELSE w1
           w3 == [w2 EXCEPT !.currentState = newState]
           w4 == InjectEvent(w3, Enter)
       IN IF w4.onStateChange
          THEN Emit(w4, [t |-> "hook", state |-> newState])
          ELSE w4
  ELSE w

EnterState(w, newState) ==
  IF w.currentState # newState
  THEN LET w1 == SendStateChange(w, newState)
           w2 == IF w1.currentState # Null THEN InjectEvent(w1, Exit) ELSE w1
           w3 == [w2 EXCEPT !.currentState = newState]
           w4 == InjectEvent(w3, Enter)
       IN IF w4.onStateChange
          THEN Emit(w4, [t |-> "hook", state |-> newState])
          ELSE w4
  ELSE w

\* the two queries are made in the other order
Start_DevicesFirst(w) ==
  LET w1 == Devices(w, CbOnDevices)
      w2 == Version(w1, CbOnVersion)
  IN EnterState(w2, Welcome)

Start(w) ==
  LET w1 == Version(w, CbOnVersion)
      w2 == Devices(w1, CbOnDevices)
  IN EnterState(w2, Welcome)

OnTimeout(w) == InjectEvent(w, Timeout)

\* IPC.parseMessageAsNone: an array of one element that is not an array
ParseMessageAsNone(data) == Len(data) = 1

\* IPC.parseMessageAsString: an array of two elements, the second a string
ParseMessageAsString(data) == Len(data) = 2

OnCommand(w, data) ==
  IF ParseMessageAsNone(data) THEN InjectEvent(w, data[1]) ELSE w

\* the selection is handed to the gateway as its default device
OnConfig_SetsDefault(w, data) ==
  IF ParseMessageAsString(data) /\ data[1] = SelectedDevice
  THEN SetDevice(SetDefaultDevice(w, data[2]), data[2])
  ELSE w

OnConfig(w, data) ==
  IF ParseMessageAsString(data) /\ data[1] = SelectedDevice
  THEN SetDevice(SelectDevice(w, data[2]), data[2])
  ELSE w

OnVersion(w, version, status) == w

OnDevices(w, devices, status) ==
  IF status = 0
  THEN LET w1 == IF Len(devices) > 0
                 THEN SetDevice(SetDefaultDevice(w, devices[1]), devices[1])
                 ELSE w
       IN SendConfig(w1, AvailableDevices, devices)
  ELSE w

OnDiscovery(w, details, status) ==
  IF status = 0
  THEN InjectEvent([w EXCEPT !.productDetails =
                               NpconfigToProductDetails(details)],
                   DiscoverySuccess)
  ELSE InjectEvent(w, DiscoveryFailure)

progressTag == "-> Lines:"
progressComplete == 30000

\* the numbers the utility prints after the progress tag
NumberOf ==
  [n \in {"0", "150", "15000", "30000", "30150", "45000"} |->
     CASE n = "0" -> 0 [] n = "150" -> 150 [] n = "15000" -> 15000
       [] n = "30000" -> 30000 [] n = "30150" -> 30150
       [] n = "45000" -> 45000]

IsNaN == -2

\* parseInt(value, 10) of the text that follows the tag, blanks skipped
ParseInt(value) ==
  IF value # <<>> /\ value[1] \in DOMAIN NumberOf
  THEN NumberOf[value[1]] ELSE IsNaN

\* Math.round(x / y) for x >= 0, y > 0
Round(x, y) == (2 * x + y) \div (2 * y)

LastIndexOf(s, tok) ==
  IF \E k \in DOMAIN s : s[k] = tok
  THEN CHOOSE k \in DOMAIN s :
         s[k] = tok /\ \A j \in DOMAIN s : s[j] = tok => j <= k
  ELSE -1

\* the status is not tested for null: whatever is not 0 is a failure
OnReprogramming_NoNullTest(w, progress, status) ==
  LET linesPos == IF progress # NullData THEN LastIndexOf(progress, progressTag)
                  ELSE -1
      w1 == IF progress # NullData /\ linesPos >= 0
            THEN LET value == Trim(SubSeq(progress, linesPos + 1,
                                          Len(progress)))
                     position == ParseInt(value)
                     percent == IF position = IsNaN THEN IsNaN
                                ELSE Round(position * 100, progressComplete)
                 IN SendConfig(w, ReprogProgress, percent)
            ELSE w
  IN InjectEvent(w1, IF status = 0 THEN ReprogrammingSuccess
                     ELSE ReprogrammingFailure)

OnReprogramming(w, progress, status) ==
  LET linesPos == IF progress # NullData THEN LastIndexOf(progress, progressTag)
                  ELSE -1
      w1 == IF progress # NullData /\ linesPos >= 0
            THEN LET value == Trim(SubSeq(progress, linesPos + 1,
                                          Len(progress)))
                     position == ParseInt(value)
                     percent == IF position = IsNaN THEN IsNaN
                                ELSE Round(position * 100, progressComplete)
                 IN SendConfig(w, ReprogProgress, percent)
            ELSE w
  IN IF status # NullStatus
     THEN InjectEvent(w1, IF status = 0 THEN ReprogrammingSuccess
                          ELSE ReprogrammingFailure)
     ELSE w1

OnCommandResponse(w, data) ==
  [w EXCEPT !.firmwareVersions = MfgToFirmwareVersions(data)]

\* objectList is NullList when the listing failed
NullList == <<"null">>

OnRepositoryList(w, objectList) ==
  IF objectList = NullList THEN InjectEvent(w, UpdateCheckFailure)
  ELSE IF Len(objectList) = 0 THEN InjectEvent(w, UpdateCheckFailure)
  ELSE DownloadFiles(w, objectList, CbOnRepositoryDownload)

\* the batch is finished when every download succeeded
OnRepositoryDownload_NeedsAllSuccess(w, filePath, result, batch) ==
  IF batch.completed = batch.count
  THEN IF batch.success = batch.count
       THEN InjectEvent(w, UpdateCheckSuccess)
       ELSE InjectEvent(w, UpdateCheckFailure)
  ELSE w

\* the end of the batch is taken from the success total
OnRepositoryDownload_TestsSuccess(w, filePath, result, batch) ==
  IF batch.success = batch.count
  THEN InjectEvent(w, UpdateCheckSuccess)
  ELSE IF batch.completed = batch.count
  THEN InjectEvent(w, UpdateCheckFailure)
  ELSE w

OnRepositoryDownload(w, filePath, result, batch) ==
  IF batch.completed = batch.count
  THEN IF batch.success > 0
       THEN InjectEvent(w, UpdateCheckSuccess)
       ELSE InjectEvent(w, UpdateCheckFailure)
  ELSE w

\* ------------------------------------------------------------------------
\* Callback dispatch
\* ------------------------------------------------------------------------
\* a callback of the orchestrator runs its method; any other callback
\* belongs to a client that only takes note of the call
CallBuffered(w, cb, data, status) ==
  LET w1 == Emit(w, [t |-> "buffered", cb |-> cb, data |-> data,
                     status |-> status])
  IN CASE cb = CbOnVersion -> OnVersion(w1, data, status)
       [] cb = CbOnDevices -> OnDevices(w1, data, status)
       [] cb = CbOnDiscovery -> OnDiscovery(w1, data, status)
       [] OTHER -> w1

CallStreaming(w, cb, data, status) ==
  LET w1 == Emit(w, [t |-> "streaming", cb |-> cb, data |-> data,
                     status |-> status])
  IN CASE cb = CbOnReprogramming -> OnReprogramming(w1, data, status)
       [] OTHER -> w1

CallSerial(w, cb, data) ==
  LET w1 == Emit(w, [t |-> "serial", cb |-> cb, data |-> data])
  IN CASE cb = CbOnCommandResponse -> OnCommandResponse(w1, data)
       [] OTHER -> w1

CallList(w, cb, objectList) ==
  LET w1 == Emit(w, [t |-> "list", cb |-> cb, keys |-> objectList])
  IN CASE cb = CbOnRepositoryList -> OnRepositoryList(w1, objectList)
       [] OTHER -> w1

\* the callback gets the batch object itself: it sees the totals as they
\* are at the time of the call
CallDownload(w, cb, filePath, result, b) ==
  LET w1 == Emit(w, [t |-> "download", cb |-> cb, file |-> filePath,
                     result |-> result, id |-> b, batch |-> w.batches[b]])
  IN CASE cb = CbOnRepositoryDownload ->
            OnRepositoryDownload(w1, filePath, result, w1.batches[b])
       [] OTHER -> w1

\* ------------------------------------------------------------------------
\* The gateway under a client that makes requests of its own
\* ------------------------------------------------------------------------
ArgName == <<"a1", "a2", "a3", "a4", "a5", "a6", "a7", "a8">>
ClientArgs(id) == <<ArgName[id]>>
ExitCodes == {0, 1, NullCode}
GatewayChunks == { <<"x">>, <<"y", "\n", "z", "\n">> }

\* the request numbers of the processes a step spawned, in order
RECURSIVE SpawnedIn(_)
SpawnedIn(o) ==
  IF o = <<>> THEN <<>>
  ELSE IF Head(o).t = "spawn"
       THEN <<CHOOSE id \in 1..Len(ArgName) : ClientArgs(id) = Head(o).args>>
              \o SpawnedIn(Tail(o))
       ELSE SpawnedIn(Tail(o))

\* the fields as the constructors leave them, nothing outstanding
InitProgram ==
  /\ bufferedCallback = NoCallback
  /\ streamingCallback = NoCallback
  /\ bufferedData = <<>>
  /\ activeDevice = NullDevice
  /\ commandQueue = <<>>
  /\ procs = <<>>
  /\ device = NullDevice
  /\ port = NoPort
  /\ dataCallback = NoCallback
  /\ responseData = <<>>
  /\ ports = <<>>
  /\ lists = <<>>
  /\ batches = <<>>
  /\ downloads = <<>>
  /\ currentState = Null
  /\ productDetails = NoDetails
  /\ firmwareVersions = NoDetails
  /\ timers = 0
  /\ running = FALSE
  /\ out = <<>>
  /\ ret = FALSE
  /\ last = [op |-> "init"]

InitGateway ==
  /\ InitProgram
  /\ onStateChange = FALSE
  /\ nextId = 1
  /\ accepted = <<>>
  /\ started = <<>>

ClientRunBuffered ==
  /\ nextId <= MaxRequests
  /\ LET w == RunBuffered(World, ClientArgs(nextId), nextId)
     IN /\ Commit(w)
        /\ accepted' = IF w.ret THEN Append(accepted, nextId) ELSE accepted
        /\ started' = started \o SpawnedIn(w.out)
  /\ last' = [op |-> "runBuffered", id |-> nextId]
  /\ nextId' = nextId + 1
  /\ UNCHANGED running

ClientRunStreaming ==
  /\ nextId <= MaxRequests
  /\ LET w == RunStreaming(World, ClientArgs(nextId), nextId)
     IN /\ Commit(w)
        /\ accepted' = IF w.ret THEN Append(accepted, nextId) ELSE accepted
        /\ started' = started \o SpawnedIn(w.out)
  /\ last' = [op |-> "runStreaming", id |-> nextId]
  /\ nextId' = nextId + 1
  /\ UNCHANGED running

\* a child process writes a chunk to stdout
ProcStdout(i, data) ==
  /\ i \in DOMAIN procs
  /\ procs[i].chunks < MaxChunks
  /\ LET w0 == [World EXCEPT !.procs[i].chunks = @ + 1]
         w == OnStdout(w0, data)
     IN Commit(w)
  /\ last' = [op |-> "stdout", args |-> procs[i].args, data |-> data]

\* a child process ends; code is NullCode when it was killed
ProcClose(i, code) ==
  /\ i \in DOMAIN procs
  /\ LET w0 == [World EXCEPT !.procs = RemoveAt(@, i)]
         w == OnClose(w0, code)
     IN Commit(w)
  /\ last' = [op |-> "close", args |-> procs[i].args, code |-> code,
              chunks |-> procs[i].chunks]

GatewayStdout ==
  /\ \E i \in DOMAIN procs, data \in GatewayChunks : ProcStdout(i, data)
  /\ started' = started \o SpawnedIn(out')
  /\ UNCHANGED <<nextId, accepted, running>>

GatewayClose ==
  /\ \E i \in DOMAIN procs, code \in ExitCodes : ProcClose(i, code)
  /\ started' = started \o SpawnedIn(out')
  /\ UNCHANGED <<nextId, accepted, running>>

NextGateway ==
  \/ ClientRunBuffered
  \/ ClientRunStreaming
  \/ GatewayStdout
  \/ GatewayClose

SpecGateway == InitGateway /\ [][NextGateway]_vars

\* ------------------------------------------------------------------------
\* The debug session under a client that makes requests of its own
\* ------------------------------------------------------------------------
DeviceNames == { <<"tty0">>, <<"tty1">> }
Alphabet == {"a", " ", "\n", "-"}
\* what the device sends on the debug port after a command: the prompt
\* alone, or any text followed by a line break and the prompt
Responses ==
  {Sentinel} \cup
  { body \o <<"\n">> \o Sentinel :
      body \in UNION { [1..n -> Alphabet] : n \in 1..MaxBodyLen } }

InitSession ==
  /\ InitProgram
  /\ onStateChange = FALSE
  /\ nextId = 1
  /\ accepted = <<>>
  /\ started = <<>>

ClientSetDevice ==
  /\ \E dev \in DeviceNames :
       /\ dev # device
       /\ Commit(SetDevice(World, dev))
       /\ last' = [op |-> "setDevice", dev |-> dev]
  /\ UNCHANGED <<nextId, accepted, started, running>>

ClientRunCommand ==
  /\ nextId <= MaxCommands
  /\ Commit(RunCommand(World, <<"version", " ", "host">>, nextId))
  /\ last' = [op |-> "runCommand", id |-> nextId]
  /\ nextId' = nextId + 1
  /\ UNCHANGED <<accepted, started, running>>

\* the callback of new SerialPort: the open succeeded or failed (logged only)
SerialOpenDone(i, ok) ==
  /\ i \in DOMAIN ports
  /\ ports[i].status = "opening"
  /\ Commit([World EXCEPT !.ports[i].status = IF ok THEN "open" ELSE "failed"])
  /\ last' = [op |-> "opened", ok |-> ok]

\* the callback of port.write: the command went out, and the device answers
\* with resp, or the write failed (logged only)
SerialWriteDone(i, ok, resp) ==
  /\ i \in DOMAIN ports
  /\ ports[i].status \in {"open", "failed"}
  /\ ports[i].write = "pending"
  /\ ok => ports[i].status = "open"
  /\ Commit([World EXCEPT
               !.ports[i].write = IF ok THEN "ok" ELSE "failed",
               !.ports[i].sent = IF ok THEN resp ELSE <<>>,
               !.ports[i].wire = IF ok THEN resp ELSE <<>>])
  /\ last' = [op |-> "written", ok |-> ok]

\* the next n tokens of the response arrive as one chunk
SerialData(i, n) ==
  /\ i \in DOMAIN ports
  /\ ports[i].status = "open"
  /\ n \in 1..Len(ports[i].wire)
  /\ LET data == SubSeq(ports[i].wire, 1, n)
         w0 == [World EXCEPT
                  !.ports[i].wire = SubSeq(@, n + 1, Len(@)),
                  !.ports[i].chunks = @ + 1]
     IN /\ Commit(OnData(w0, data))
        /\ last' = [op |-> "data", data |-> data, no |-> w0.ports[i].chunks,
                    sent |-> ports[i].sent, rest |-> w0.ports[i].wire]

SessionOpenDone ==
  /\ \E i \in DOMAIN ports, ok \in BOOLEAN : SerialOpenDone(i, ok)
  /\ UNCHANGED <<nextId, accepted, started, running>>

SessionWriteDone ==
  /\ \E i \in DOMAIN ports, ok \in BOOLEAN :
       \E resp \in IF ok THEN Responses ELSE {<<>>} : SerialWriteDone(i, ok, resp)
  /\ UNCHANGED <<nextId, accepted, started, running>>

SessionData ==
  /\ \E i \in DOMAIN ports, n \in 1..(MaxBodyLen + 2) : SerialData(i, n)
  /\ UNCHANGED <<nextId, accepted, started, running>>

NextSession ==
  \/ ClientSetDevice
  \/ ClientRunCommand
  \/ SessionOpenDone
  \/ SessionWriteDone
  \/ SessionData

SpecSession == InitSession /\ [][NextSession]_vars

\* ------------------------------------------------------------------------
\* The program: the orchestrator with its three adapters, the observer and
\* the outside world (utility processes, debug port, object store, timers)
\* ------------------------------------------------------------------------
\* what the utility writes to stdout, by the option it was started with
ChunksFor(args) ==
  CASE args[1] = "-v" -> { <<"1.2.3", "\n">> }
    [] args[1] = "-x" -> { <<"tty0", "\n">> }
    [] args[1] = "-r " -> { <<"Product Type", ":", " ", "NSC222", "\n">> }
    [] args[1] = "-p " -> { <<progressTag, " ", "15000", "\n">> }
    [] OTHER -> GatewayChunks

\* what the device answers to "mfg version host"
FsmResponses == { <<"app", " ", "v1", " ", "29380", "\n", "-">> }

\* how the utility ends when the orchestrator runs it: normally, or killed
FsmExitCodes == {0, NullCode}

\* the device the observer selects; the utility reports another one
FsmDevices == { <<"tty1">> }

KeyNames == <<"k1", "k2", "k3", "k4", "k5">>
\* results of a listing: the listing failed, or this many keys were found
ListResults == {NullList} \cup { SubSeq(KeyNames, 1, n) : n \in 0..MaxKeys }

InitFsm ==
  /\ InitProgram
  /\ onStateChange \in BOOLEAN
  /\ nextId = 1
  /\ accepted = <<>>
  /\ started = <<>>

\* the step is complete; timers that never fire and requests the object
\* store never answers do not pile up without end
Step(w) ==
  /\ w.timers <= MaxTimers
  /\ Len(w.lists) <= MaxLists
  /\ Len(w.downloads) <= MaxKeys
  /\ Commit(w)

\* MainApp.run() calls start() once
FsmStart ==
  /\ ~running
  /\ Step(Start(World))
  /\ running' = TRUE
  /\ last' = [op |-> "start"]
  /\ UNCHANGED <<nextId, accepted, started>>

\* a message [command] arrives on the command channel
ObserverCommand ==
  /\ \E c \in Commands :
       /\ Step(OnCommand(World, <<c>>))
       /\ last' = [op |-> "command", event |-> c]
  /\ UNCHANGED <<running, nextId, accepted, started>>

\* a message [SelectedDevice, name] arrives on the config channel
ObserverConfig ==
  /\ \E dev \in FsmDevices :
       /\ Step(OnConfig(World, <<SelectedDevice, dev>>))
       /\ last' = [op |-> "config", dev |-> dev]
  /\ UNCHANGED <<running, nextId, accepted, started>>

\* a timer armed by startTimer fires
TimerFire ==
  /\ timers > 0
  /\ Step(OnTimeout([World EXCEPT !.timers = @ - 1]))
  /\ last' = [op |-> "timeout"]
  /\ UNCHANGED <<running, nextId, accepted, started>>

FsmStdout ==
  /\ \E i \in DOMAIN procs :
       /\ procs[i].chunks < MaxOutput
       /\ \E data \in ChunksFor(procs[i].args) : ProcStdout(i, data)
  /\ timers' <= MaxTimers
  /\ UNCHANGED <<running, nextId, accepted, started>>

FsmClose ==
  /\ \E i \in DOMAIN procs, code \in FsmExitCodes : ProcClose(i, code)
  /\ timers' <= MaxTimers
  /\ UNCHANGED <<running, nextId, accepted, started>>

\* the callback of s3.listObjectsV2: an error, or the keys found
RepoListDone ==
  /\ \E i \in DOMAIN lists, objectList \in ListResults :
       /\ Step(CallList([World EXCEPT !.lists = RemoveAt(@, i)], lists[i],
                        objectList))
       /\ last' = [op |-> "list", keys |-> objectList]
  /\ UNCHANGED <<running, nextId, accepted, started>>

\* the callback of s3.getObject for one file of a batch
RepoDownloadDone ==
  /\ \E i \in DOMAIN downloads, res \in BOOLEAN :
       /\ Step(DoDownloadDone(World, i, res))
       /\ last' = [op |-> "download", key |-> downloads[i].key,
                   result |-> res, id |-> downloads[i].batch]
  /\ UNCHANGED <<running, nextId, accepted, started>>

FsmOpenDone ==
  /\ \E i \in DOMAIN ports, ok \in BOOLEAN : SerialOpenDone(i, ok)
  /\ UNCHANGED <<running, nextId, accepted, started>>

FsmWriteDone ==
  /\ \E i \in DOMAIN ports, ok \in BOOLEAN :
       \E resp \in IF ok THEN FsmResponses ELSE {<<>>} :
          SerialWriteDone(i, ok, resp)
  /\ UNCHANGED <<running, nextId, accepted, started>>

FsmData ==
  /\ \E i \in DOMAIN ports :
       \E n \in 1..Len(ports[i].wire) :
          /\ ports[i].chunks + 1 >= MaxSplit => n = Len(ports[i].wire)
          /\ SerialData(i, n)
  /\ UNCHANGED <<running, nextId, accepted, started>>

\* The program while the debug port stays silent: the orchestrator may ask
\* for the port, and the open never completes.  The callbacks of the port
\* (FsmOpenDone, FsmWriteDone, FsmData) read and write the fields of the
\* debug session and firmwareVersions only; they change neither the state
\* of the orchestrator nor anything of the gateway or the repository.
NextSilent ==
  \/ FsmStart
  \/ ObserverCommand
  \/ ObserverConfig
  \/ TimerFire
  \/ FsmStdout
  \/ FsmClose
  \/ RepoListDone
  \/ RepoDownloadDone

SpecSilent == InitFsm /\ [][NextSilent]_vars

\* The whole program
Next ==
  \/ FsmStart
  \/ ObserverCommand
  \/ ObserverConfig
  \/ TimerFire
  \/ FsmStdout
  \/ FsmClose
  \/ RepoListDone
  \/ RepoDownloadDone
  \/ FsmOpenDone
  \/ FsmWriteDone
  \/ FsmData

Spec == InitFsm /\ [][Next]_vars

\* ------------------------------------------------------------------------
\* enterState called with any target, as a unit: the program itself only
\* ever asks for a state other than the current one
\* ------------------------------------------------------------------------
CallEnterState ==
  /\ \E s \in States :
       /\ Step(EnterState(World, s))
       /\ last' = [op |-> "enterState", target |-> s, from |-> currentState]
  /\ UNCHANGED <<running, nextId, accepted, started>>

\* no adapter completes a request here: what a call of enterState leaves
\* behind is what the call itself did
NextEnter ==
  \/ FsmStart
  \/ ObserverCommand
  \/ ObserverConfig
  \/ CallEnterState

SpecEnter == InitFsm /\ [][NextEnter]_vars

\* ------------------------------------------------------------------------
\* Properties of the debug session (checked under SpecSession)
\* ------------------------------------------------------------------------
OpenTransports ==
  { i \in DOMAIN ports : ports[i].status \in {"opening", "open"} }

\* C6: at most one transport is open or being opened; runCommand called
\* while a transport is held, or while no device is configured, returns
\* false, opens nothing, and leaves the port, the pending callback and the
\* response buffer as they were.
C6_OneTransport ==
  /\ [](Cardinality(OpenTransports) <= 1)
  /\ [](Len(ports) <= 1)
  /\ [][(ClientRunCommand /\ (port # NoPort \/ device = NullDevice)) =>
          /\ ret' = FALSE
          /\ out' = <<>>
          /\ UNCHANGED <<port, ports, dataCallback, responseData,
                         device>>]_vars

\* a request has just been rejected while part of a response was buffered
C6_Witness ==
  /\ last.op = "runCommand"
  /\ ret = FALSE
  /\ port # NoPort
  /\ dataCallback # NoCallback
  /\ responseData # <<>>

\* the number of the line of text that holds token k
LineNo(text, k) ==
  1 + Cardinality({ j \in 1..k : text[j] = "\n" })

\* the last step delivered the second and last chunk of a response, and the
\* tokens on both sides of the chunk boundary belong to one line
TwoChunksSplitMidLine ==
  /\ last.op = "data"
  /\ last.no = 2
  /\ last.rest = <<>>
  /\ LET k == Len(last.sent) - Len(last.data)
     IN last.sent[k] # "\n" /\ last.sent[k + 1] # "\n"

\* the line of the response that the chunk boundary fell in
SplitLine ==
  LET k == Len(last.sent) - Len(last.data)
  IN Split(last.sent)[LineNo(last.sent, k)]

\* C7: when a response arrives in two chunks split in the middle of a line,
\* the second chunk completes the command and the line that held the split
\* point is among the delivered lines as one line (blanks at its ends
\* aside), the delivered list ending in the prompt line.
C7_SplitLineReassembled ==
  TwoChunksSplitMidLine =>
    \E k \in DOMAIN out :
      /\ out[k].t = "serial"
      /\ out[k].data[Len(out[k].data)] = Sentinel
      /\ \E j \in DOMAIN out[k].data : Trim(out[k].data[j]) = Trim(SplitLine)

\* C7, where it holds: the same, for a split with no blank on either side
\* of the chunk boundary.
C7_HoldsAwayFromBlanks ==
  (/\ TwoChunksSplitMidLine
   /\ LET k == Len(last.sent) - Len(last.data)
      IN last.sent[k] # " " /\ last.sent[k + 1] # " ") =>
    \E k \in DOMAIN out :
      /\ out[k].t = "serial"
      /\ out[k].data[Len(out[k].data)] = Sentinel
      /\ \E j \in DOMAIN out[k].data : Trim(out[k].data[j]) = Trim(SplitLine)

\* ------------------------------------------------------------------------
\* Properties of the gateway (checked under SpecGateway)
\* ------------------------------------------------------------------------
Busy == bufferedCallback # NoCallback \/ streamingCallback # NoCallback
IsDelivery(e) == e.t \in {"buffered", "streaming"}
Range(s) == { s[k] : k \in DOMAIN s }

\* C1: between events the buffered and the streaming callback are never both
\* set, and at most one child process is alive: at most one command is in
\* flight.
C1_AtMostOneInFlight ==
  /\ ~(bufferedCallback # NoCallback /\ streamingCallback # NoCallback)
  /\ Len(procs) <= 1

\* a streaming command runs after two earlier commands have run
C1_Witness ==
  /\ streamingCallback # NoCallback
  /\ Len(started) >= 3
  /\ Len(procs) = 1

\* C2: runBuffered called while a command is in flight queues the request
\* and returns true when the queue holds fewer than 2 commands, and returns
\* false and changes nothing when it holds 2; the queue never holds more
\* than 2.
C2_QueueOrReject ==
  /\ [](Len(commandQueue) <= 2)
  /\ [][(ClientRunBuffered /\ Busy) =>
          IF Len(commandQueue) < 2
          THEN /\ ret' = TRUE
               /\ commandQueue' =
                    Append(commandQueue, [parameters |-> ClientArgs(nextId),
                                          handler |-> nextId])
               /\ UNCHANGED <<bufferedCallback, streamingCallback, procs>>
          ELSE /\ ret' = FALSE
               /\ UNCHANGED <<commandQueue, bufferedCallback,
                              streamingCallback, bufferedData, procs>>]_vars

\* a buffered request has just been rejected with the queue full
C2_Witness ==
  /\ last.op = "runBuffered"
  /\ ret = FALSE
  /\ Len(commandQueue) = 2

\* C3: commands are started in the order they were accepted (the queue holds
\* the accepted commands not yet started, oldest first), never while an
\* earlier process is still alive, and every delivery goes to the handler
\* that was supplied with the command of the process that produced it.
C3_OrderAndHandler ==
  /\ Len(started) <= Len(accepted)
  /\ started = SubSeq(accepted, 1, Len(started))
  /\ [k \in 1..Len(commandQueue) |-> commandQueue[k].handler]
       = SubSeq(accepted, Len(started) + 1, Len(accepted))
  /\ Len(procs) <= 1
  /\ \A k \in DOMAIN out :
       IsDelivery(out[k]) =>
         /\ last.op \in {"stdout", "close"}
         /\ ClientArgs(out[k].cb) = last.args

\* the close of command 2 delivered to handler 2 and started command 3 from
\* a queue that also held command 4
C3_Witness ==
  /\ last.op = "close"
  /\ \E k \in DOMAIN out : out[k].t = "buffered" /\ out[k].cb = 2
  /\ started = <<1, 2, 3>>
  /\ Len(commandQueue) = 1

\* C4: runStreaming called while a command is in flight returns false and
\* changes neither the in-flight command nor the queue nor the processes;
\* a rejected request is never queued and its callback is never invoked.
C4_StreamingRejected ==
  /\ [](\A k \in DOMAIN out :
          IsDelivery(out[k]) => out[k].cb \in Range(accepted))
  /\ [](\A k \in DOMAIN commandQueue :
          commandQueue[k].handler \in Range(accepted))
  /\ [][(ClientRunStreaming /\ Busy) =>
          /\ ret' = FALSE
          /\ out' = <<>>
          /\ UNCHANGED <<bufferedCallback, streamingCallback, bufferedData,
                         commandQueue, procs, accepted, started>>]_vars

\* a streaming request has just been rejected while commands were queued
C4_Witness ==
  /\ last.op = "runStreaming"
  /\ ret = FALSE
  /\ Len(commandQueue) >= 1

\* C5: the close of a process delivers exactly once, to the callback in
\* force, with a status that is never null; a null exit code is delivered
\* as status 1 and any other code as itself.
C5_NullCodeIsOne ==
  last.op = "close" =>
    /\ \E k \in DOMAIN out : IsDelivery(out[k])
    /\ \A k \in DOMAIN out :
         IsDelivery(out[k]) =>
           /\ out[k].status # NullStatus
           /\ out[k].status = IF last.code = NullCode THEN 1 ELSE last.code

\* a killed streaming command has just reported status 1
C5_Witness ==
  /\ last.op = "close"
  /\ last.code = NullCode
  /\ \E k \in DOMAIN out : out[k].t = "streaming" /\ out[k].status = 1

\* ------------------------------------------------------------------------
\* Properties of a download batch (checked under SpecSilent)
\* ------------------------------------------------------------------------
\* the downloads of batch b whose completion is still to come
Outstanding(b) == { k \in DOMAIN downloads : downloads[k].batch = b }

\* the check outcome events injected by the last step
CheckOutcomes ==
  { k \in DOMAIN out :
      /\ out[k].t = "inject"
      /\ out[k].event \in {UpdateCheckSuccess, UpdateCheckFailure} }

\* the per-file callbacks the last step made
DownloadCalls == { k \in DOMAIN out : out[k].t = "download" }

BatchInOrder(batch) ==
  /\ 0 <= batch.success
  /\ batch.success <= batch.completed
  /\ batch.completed <= batch.count

\* what a step does to the batches: a completion adds 1 to completed of its
\* batch, adds 1 to success iff it succeeded and leaves count alone, which
\* is what its callback sees; no batch changes in any other way
BatchStep ==
  /\ \A b \in DOMAIN batches \cap DOMAIN batches' :
       IF last'.op = "download" /\ last'.id = b
       THEN batches'[b] =
              [completed |-> batches[b].completed + 1,
               count |-> batches[b].count,
               success |-> batches[b].success
                             + (IF last'.result THEN 1 ELSE 0)]
       ELSE batches'[b] = batches[b]
  /\ last'.op = "download" =>
       /\ last'.id \in DOMAIN batches
       /\ \A k \in DOMAIN out' :
            out'[k].t = "download" =>
              out'[k].batch =
                [completed |-> batches[last'.id].completed + 1,
                 count |-> batches[last'.id].count,
                 success |-> batches[last'.id].success
                               + (IF last'.result THEN 1 ELSE 0)]

fields == <<bufferedCallback, streamingCallback, bufferedData, activeDevice,
            commandQueue, procs, device, port, dataCallback, responseData,
            ports, lists, batches, downloads, currentState, productDetails,
            firmwareVersions, onStateChange, timers>>

\* C10: enterState(S) called while the current state is S has no effect: it
\* injects no Exit and no Enter, sends no state-change notification, does
\* not call the observer hook, starts no adapter operation (nothing is
\* emitted at all) and leaves every field as it was.
C10_SameStateNoop ==
  [][(last'.op = "enterState" /\ last'.target = last'.from) =>
       /\ out' = <<>>
       /\ UNCHANGED fields]_vars

\* enterState has just been called for the current state, with the hook
\* installed, in a state whose Enter would have started an adapter operation
C10_Witness ==
  /\ last.op = "enterState"
  /\ last.target = last.from
  /\ last.target \in {CheckingForUpdate, Detecting, DetectingManual, Updating}
  /\ currentState = last.target
  /\ onStateChange
  /\ out = <<>>

\* ------------------------------------------------------------------------
\* Properties of the orchestrator (checked under SpecSilent)
\* ------------------------------------------------------------------------
Events ==
  {Enter, Exit, Timeout, UpdateCheckSuccess, UpdateCheckFailure,
   DiscoverySuccess, DiscoveryFailure, ReprogrammingSuccess,
   ReprogrammingFailure} \cup Commands

\* the events for which the handler of state s calls enterState
Registered(s) ==
  CASE s = Welcome -> {Continue}
    [] s = CheckingForUpdate -> {UpdateCheckSuccess, UpdateCheckFailure}
    [] s = CheckFailedOffline -> {Retry}
    [] s = CheckFailedCached -> {Retry, Continue}
    [] s = ConnectPrompt -> {Retry, Continue}
    [] s = Detecting -> {DiscoverySuccess, DiscoveryFailure}
    [] s = DetectionFailed -> {Retry, Continue}
    [] s = DetectingManual -> {Connect}
    [] s = DetectedAvailable -> {Install}
    [] s = DetectedCurrent -> {Restart}
    [] s = Updating -> {ReprogrammingSuccess, ReprogrammingFailure}
    [] s = UpdateComplete -> {Restart}
    [] s = UpdateFailed -> {Restart}
    [] OTHER -> {}

\* where the injection that ends at out[j] started: the nearest "inject"
\* before j with as many starts as ends in between
StartOf(j) ==
  CHOOSE i \in 1..(j - 1) :
    /\ out[i].t = "inject"
    /\ Cardinality({ k \in (i + 1)..(j - 1) : out[k].t = "inject" })
         = Cardinality({ k \in (i + 1)..(j - 1) : out[k].t = "handled" })
    /\ \A i2 \in (i + 1)..(j - 1) :
         ~(/\ out[i2].t = "inject"
           /\ Cardinality({ k \in (i2 + 1)..(j - 1) : out[k].t = "inject" })
                = Cardinality({ k \in (i2 + 1)..(j - 1) :
                                  out[k].t = "handled" }))

\* the injections of the last step that ended, in a state that registers no
\* transition for their event
Unregistered ==
  { j \in DOMAIN out :
      /\ out[j].t = "handled"
      /\ out[j].state \in States
      /\ out[j].event \notin Registered(out[j].state) }

\* the injection that ended at out[j] left the state alone and sent no
\* state-change notification
Ignored(j) ==
  /\ out[j].now = out[j].state
  /\ \A k \in StartOf(j)..j : out[k].t # "state"

\* C11: an event injected into a state whose handler registers no
\* transition for it leaves the current state as it was and sends no
\* state-change notification.
C11_UnregisteredIgnored == \A j \in Unregistered : Ignored(j)

\* the injection is the Enter of Detecting or Updating, and the gateway has
\* no device, so that it calls the handler's callback before it returns
SyncFailure(j) ==
  /\ out[j].event = Enter
  /\ out[j].state \in {Detecting, Updating}
  /\ \E k \in StartOf(j)..j :
       /\ out[k].t \in {"buffered", "streaming"}
       /\ out[k].status = 1
       /\ out[k].cb \in {CbOnDiscovery, CbOnReprogramming}

\* what holds of the code: the only injections without a registered
\* transition that change the state are these Enters
C11_IgnoredUnlessSyncFailure ==
  \A j \in Unregistered : Ignored(j) \/ SyncFailure(j)

\* the state that is current just before record k of the effects o of a
\* step that began in state c: the last injection that ended before k says
\* which state it left current, and the handler of an injection that began
\* before k has not changed it yet
CurrentAt(o, c, k) ==
  LET before == { i \in 1..(k - 1) : o[i].t \in {"inject", "handled"} }
  IN IF before = {} THEN c
     ELSE LET i == CHOOSE x \in before : \A y \in before : y <= x
          IN IF o[i].t = "handled" THEN o[i].now ELSE o[i].state

\* where the injection that starts at o[i] ends
EndOf(o, i) ==
  CHOOSE j \in (i + 1)..Len(o) :
    /\ o[j].t = "handled"
    /\ Cardinality({ k \in (i + 1)..(j - 1) : o[k].t = "inject" })
         = Cardinality({ k \in (i + 1)..(j - 1) : o[k].t = "handled" })
    /\ \A j2 \in (i + 1)..(j - 1) :
         ~(/\ o[j2].t = "handled"
           /\ Cardinality({ k \in (i + 1)..(j2 - 1) : o[k].t = "inject" })
                = Cardinality({ k \in (i + 1)..(j2 - 1) :
                                  o[k].t = "handled" }))

IsInject(e, s, ev) == e.t = "inject" /\ e.state = s /\ e.event = ev

\* the transition announced at o[k] runs in the order of enterState; hook
\* tells whether an observer hook is installed
TransitionInOrder(o, c, hook, k) ==
  LET target == o[k].state
      old == CurrentAt(o, c, k)
      enter == IF old = Null THEN k + 1 ELSE EndOf(o, k + 1) + 1
  IN /\ target # old
     /\ old # Null => k + 1 <= Len(o) /\ IsInject(o[k + 1], old, Exit)
     /\ enter <= Len(o)
     /\ IsInject(o[enter], target, Enter)
     /\ hook =>
          /\ EndOf(o, enter) + 1 <= Len(o)
          /\ o[EndOf(o, enter) + 1] = [t |-> "hook", state |-> target]

\* the records of o that a transition accounts for: its notification, its
\* Exit, its Enter and its call of the hook
PartOfTransition(o, c, hook, k) ==
  LET old == CurrentAt(o, c, k)
      enter == IF old = Null THEN k + 1 ELSE EndOf(o, k + 1) + 1
  IN {k, enter}
       \cup (IF old = Null THEN {} ELSE {k + 1})
       \cup (IF hook THEN {EndOf(o, enter) + 1} ELSE {})

\* every transition of the step runs in order, and no Exit, Enter or hook
\* call happens outside a transition
StepInOrder(o, c, hook) ==
  LET starts == { k \in DOMAIN o : o[k].t = "state" }
  IN /\ \A k \in starts : TransitionInOrder(o, c, hook, k)
     /\ \A i \in DOMAIN o :
          (\/ o[i].t = "hook"
           \/ (o[i].t = "inject" /\ o[i].event \in {Enter, Exit}))
            => \E k \in starts : i \in PartOfTransition(o, c, hook, k)

\* C12: every transition to a different state sends the notification for
\* the target, then injects Exit into the state that was current (not when
\* there was none), then makes the target current and injects Enter into
\* it, then calls the observer hook with the target; Exit, Enter and the
\* hook occur in no other place.
C12_TransitionOrder ==
  [][StepInOrder(out', currentState, onStateChange)]_vars

\* a step has just made two transitions, one from inside the Enter of the
\* other, with the hook installed
C12_Witness ==
  /\ onStateChange
  /\ Cardinality({ k \in DOMAIN out : out[k].t = "state" }) = 2
  /\ Cardinality({ k \in DOMAIN out : out[k].t = "hook" }) = 2
  /\ \E k \in DOMAIN out : IsInject(out[k], ConnectPrompt, Exit)

\* the totals the per-file callback of the step was shown
Shown(o) == o[CHOOSE k \in DOMAIN o : o[k].t = "download"].batch

\* the step is a completion of the object store that makes the check fail:
\* the listing failed, it found nothing, or the last download of a batch
\* completed and none of the batch succeeded
CheckFails(l, o) ==
  \/ l.op = "list" /\ l.keys \in {NullList, <<>>}
  \/ /\ l.op = "download"
     /\ Shown(o).completed = Shown(o).count
     /\ Shown(o).success = 0

\* C13: in CheckingForUpdate every check failure (listing error, empty
\* listing, batch finished without a success) injects the check failure
\* event and moves the workflow to CheckFailedCached.
C13_FailureGoesToCached ==
  [][(currentState = CheckingForUpdate /\ CheckFails(last', out')) =>
       /\ \E k \in DOMAIN out' :
            IsInject(out'[k], CheckingForUpdate, UpdateCheckFailure)
       /\ currentState' = CheckFailedCached]_vars

\* both downloads of a batch have failed and the workflow is in
\* CheckFailedCached
C13_Witness ==
  /\ last.op = "download"
  /\ Shown(out) = [completed |-> 2, count |-> 2, success |-> 0]
  /\ currentState = CheckFailedCached

\* C14: a completion of a batch started from CheckingForUpdate decides
\* nothing before the one at which completed = count; that one moves the
\* workflow to ConnectPrompt when at least one download succeeded and to a
\* check-failed state when none did.
C14_PartialSuccessConnects ==
  [][(currentState = CheckingForUpdate /\ last'.op = "download") =>
       IF Shown(out').completed = Shown(out').count
       THEN IF Shown(out').success >= 1
            THEN currentState' = ConnectPrompt
            ELSE currentState' \in {CheckFailedCached, CheckFailedOffline}
       ELSE /\ currentState' = CheckingForUpdate
            /\ \A k \in DOMAIN out' : out'[k].t \notin {"state", "inject"}]_vars

\* a batch of two has finished with one success and one failure, the
\* failure last, and the workflow is in ConnectPrompt
C14_Witness ==
  /\ last.op = "download"
  /\ ~last.result
  /\ Shown(out) = [completed |-> 2, count |-> 2, success |-> 1]
  /\ currentState = ConnectPrompt

\* a delivery of the reprogramming stream to the orchestrator
IsReprogDelivery(e) == e.t = "streaming" /\ e.cb = CbOnReprogramming

IsProgress(e) == e.t = "config" /\ e.config = ReprogProgress

\* a step in which a chunk of the stream was delivered: the workflow was in
\* Updating and stays there, the stream stays open, and nothing but the
\* progress notification comes of it
ChunkKeepsUpdating(o) ==
  (\E d \in DOMAIN o : IsReprogDelivery(o[d]) /\ o[d].status = NullStatus) =>
     /\ currentState = Updating
     /\ currentState' = Updating
     /\ streamingCallback' = CbOnReprogramming
     /\ \A k \in DOMAIN o : o[k].t \notin {"inject", "state"}

\* a progress notification comes from a delivery without a status only
ProgressFromChunk(o) ==
  \A p \in DOMAIN o :
    IsProgress(o[p]) =>
      /\ p > 1
      /\ IsReprogDelivery(o[p - 1])
      /\ o[p - 1].status = NullStatus

\* a transition to UpdateComplete or UpdateFailed follows a delivery with a
\* status, by way of the event that goes with the status, and no progress
\* notification comes after it
EndOnStatus(o) ==
  \A k \in DOMAIN o :
    (o[k].t = "state" /\ o[k].state \in {UpdateComplete, UpdateFailed}) =>
      /\ k > 2
      /\ IsReprogDelivery(o[k - 2])
      /\ o[k - 2].status # NullStatus
      /\ o[k - 2].status = 0 <=> o[k].state = UpdateComplete
      /\ IsInject(o[k - 1], Updating,
                  IF o[k - 2].status = 0 THEN ReprogrammingSuccess
                  ELSE ReprogrammingFailure)
      /\ \A p \in DOMAIN o : IsProgress(o[p]) => p < k

\* C15: a progress notification is produced from a streamed chunk while the
\* workflow is and stays in Updating, hence ahead of the transition that
\* ends the run; that transition is made only at a delivery with a
\* non-null status, to UpdateComplete iff the status is 0; at the close of
\* the run the workflow leaves Updating.
C15_ProgressBeforeEnd ==
  [][/\ ChunkKeepsUpdating(out')
     /\ ProgressFromChunk(out')
     /\ EndOnStatus(out')
     /\ (last'.op = "close" /\ last'.args[1] = "-p ") =>
          /\ currentState = Updating
          /\ currentState' = IF last'.code = 0 THEN UpdateComplete
                             ELSE UpdateFailed]_vars

\* the run has closed with status 0 after a chunk reported progress, and
\* the workflow is in UpdateComplete
C15_Witness ==
  /\ last.op = "close"
  /\ last.args[1] = "-p "
  /\ last.code = 0
  /\ last.chunks >= 1
  /\ currentState = UpdateComplete

\* every field of the program but the timers
fieldsButTimers ==
  <<bufferedCallback, streamingCallback, bufferedData, activeDevice,
    commandQueue, procs, device, port, dataCallback, responseData, ports,
    lists, batches, downloads, currentState, productDetails,
    firmwareVersions, onStateChange>>

\* C16: a timer that fires while the current state is not DetectedAvailable
\* has Timeout handled by the current state and nothing else: the state
\* and every other field stay as they were, no notification is sent and no
\* adapter operation is called.
C16_StaleTimeoutIgnored ==
  [][(last'.op = "timeout" /\ currentState # DetectedAvailable) =>
       /\ out' = << [t |-> "inject", state |-> currentState,
                     event |-> Timeout],
                    [t |-> "handled", state |-> currentState,
                     event |-> Timeout, now |-> currentState] >>
       /\ timers' = timers - 1
       /\ UNCHANGED fieldsButTimers]_vars

\* the timer armed in DetectedAvailable has just fired in Updating, while
\* the reprogramming stream was running
C16_Witness ==
  /\ last.op = "timeout"
  /\ currentState = Updating
  /\ streamingCallback = CbOnReprogramming
  /\ Len(out) = 2

\* every field of the program but the two device names
fieldsButDevices ==
  <<bufferedCallback, streamingCallback, bufferedData, commandQueue, procs,
    port, dataCallback, responseData, ports, lists, batches, downloads,
    currentState, productDetails, firmwareVersions, onStateChange, timers>>

\* C17: a SelectedDevice message sets the active device of the gateway and
\* the device of the debug session to the name it carries, in the same
\* step and in any state, and changes nothing else: not the current state,
\* not the command in flight or the queue of the gateway, not a debug
\* session under way; nothing is sent or called.
C17_SelectSetsBothDevices ==
  [][last'.op = "config" =>
       /\ activeDevice' = last'.dev
       /\ device' = last'.dev
       /\ out' = <<>>
       /\ UNCHANGED fieldsButDevices]_vars

\* a device has just been selected in Updating, while the reprogramming
\* stream runs and the debug session holds a port
C17_Witness ==
  /\ last.op = "config"
  /\ currentState = Updating
  /\ streamingCallback = CbOnReprogramming
  /\ port # NoPort
  /\ activeDevice = last.dev
  /\ device = last.dev

\* ------------------------------------------------------------------------
\* The gateway under a client that uses its device-scoped operations
\* ------------------------------------------------------------------------
ClientSelectDevice ==
  /\ \E dev \in DeviceNames :
       /\ Commit(SelectDevice(World, dev))
       /\ last' = [op |-> "selectDevice", dev |-> dev]
  /\ UNCHANGED <<running, nextId, accepted, started>>

ClientDiscover ==
  /\ nextId <= MaxRequests
  /\ LET w == Discover(World, nextId)
     IN /\ Commit(w)
        /\ accepted' = IF w.ret THEN Append(accepted, nextId) ELSE accepted
  /\ last' = [op |-> "discover", id |-> nextId]
  /\ nextId' = nextId + 1
  /\ UNCHANGED <<running, started>>

ClientReprogApp ==
  /\ nextId <= MaxRequests
  /\ LET w == ReprogApp(World, nextId)
     IN /\ Commit(w)
        /\ accepted' = IF w.ret THEN Append(accepted, nextId) ELSE accepted
  /\ last' = [op |-> "reprogApp", id |-> nextId]
  /\ nextId' = nextId + 1
  /\ UNCHANGED <<running, started>>

NextDevice ==
  \/ ClientRunBuffered
  \/ ClientSelectDevice
  \/ ClientDiscover
  \/ ClientReprogApp
  \/ FsmStdout
  \/ FsmClose

SpecDevice == InitGateway /\ [][NextDevice]_vars

\* ------------------------------------------------------------------------
\* Properties of the device-scoped operations (checked under SpecDevice)
\* ------------------------------------------------------------------------
\* C18: with no active device, discover and reprogApp return false and
\* call their callback once before they return, discover with an empty
\* list and status 1, reprogApp with null and status 1; no process is
\* started, and the callbacks in force, the queue and the buffer of the
\* gateway stay as they were.
C18_NoDeviceFailsAtOnce ==
  [][(last'.op \in {"discover", "reprogApp"} /\ activeDevice = NullDevice) =>
       /\ ret' = FALSE
       /\ out' = << IF last'.op = "discover"
                    THEN [t |-> "buffered", cb |-> last'.id, data |-> <<>>,
                          status |-> 1]
                    ELSE [t |-> "streaming", cb |-> last'.id,
                          data |-> NullData, status |-> 1] >>
       /\ UNCHANGED <<bufferedCallback, streamingCallback, bufferedData,
                      commandQueue, procs, activeDevice>>]_vars

\* reprogApp has just failed for want of a device while a command was in
\* flight and another one queued
C18_Witness ==
  /\ last.op = "reprogApp"
  /\ activeDevice = NullDevice
  /\ ret = FALSE
  /\ bufferedCallback # NoCallback
  /\ Len(commandQueue) >= 1
  /\ Len(out) = 1

\* ------------------------------------------------------------------------
\* The program when every started process closes and every request to the
\* object store is answered
\* ------------------------------------------------------------------------
\* Each of these steps is told by the record it leaves in last, which no
\* other handler writes, so the step is possible exactly when something is
\* outstanding: a started process, a listing, a download.
\* the close event of a started process (FsmClose)
ProcessCloses ==
  /\ procs # <<>>
  /\ last' \in { [op |-> "close", args |-> procs[i].args, code |-> code,
                   chunks |-> procs[i].chunks] :
                     i \in DOMAIN procs, code \in FsmExitCodes }

\* the object store answers a listing (RepoListDone)
ListAnswered ==
  /\ lists # <<>>
  /\ last' \in { [op |-> "list", keys |-> objectList] :
                     objectList \in ListResults }

\* the object store answers a download (RepoDownloadDone)
DownloadAnswered ==
  /\ downloads # <<>>
  /\ last' \in { [op |-> "download", key |-> downloads[i].key,
                   result |-> res, id |-> downloads[i].batch] :
                     i \in DOMAIN downloads, res \in BOOLEAN }

SpecLive ==
  /\ InitFsm
  /\ [][NextSilent]_vars
  /\ WF_last(ProcessCloses)
  /\ WF_last(ListAnswered)
  /\ WF_last(DownloadAnswered)

\* states whose Enter handler asks an adapter for something
Requesting == {CheckingForUpdate, Detecting, Updating}

\* C19: when processes close and the object store answers, the
\* orchestrator does not stay for ever in CheckingForUpdate, Detecting or
\* Updating: each of them is eventually left.
C19_RequestStatesLeft ==
  \A s \in Requesting : (currentState = s) ~> (currentState # s)

\* ------------------------------------------------------------------------
\* Delivery of buffered commands (checked under SpecGateway)
\* ------------------------------------------------------------------------
\* the calls of buffered callbacks among the effects of a step
BufferedCalls(o) == SelectSeq(o, LAMBDA e : e.t = "buffered")

\* the callback of the command in flight
InFlight ==
  IF streamingCallback # NoCallback THEN streamingCallback ELSE bufferedCallback

Queued(id) ==
  \E q \in DOMAIN commandQueue :
     /\ commandQueue[q].handler = id
     /\ commandQueue[q].parameters = ClientArgs(id)

\* an accepted command is queued once, or was started; the one process
\* that runs is the process of the command in flight
Tracked ==
  /\ Len(procs) <= 1
  /\ procs = <<>> <=> InFlight = NoCallback
  /\ procs # <<>> => procs[1].args = ClientArgs(InFlight)
  /\ \A k \in DOMAIN accepted :
        LET id == accepted[k]
        IN (\E j \in DOMAIN started : started[j] = id) # Queued(id)
  /\ \A q, r \in DOMAIN commandQueue :
        commandQueue[q].handler = commandQueue[r].handler => q = r
  /\ \A j \in DOMAIN started : InFlight = started[j] => j = Len(started)

\* what one step does to buffered commands
DeliversAtClose ==
  LET calls == BufferedCalls(out')
      closes == last'.op = "close" /\ bufferedCallback # NoCallback
  IN /\ Len(calls) <= 1
     /\ calls # <<>> <=> closes
     /\ closes =>
          /\ last'.args = ClientArgs(bufferedCallback)
          /\ calls[1] = [t |-> "buffered", cb |-> bufferedCallback,
                         data |-> bufferedData,
                         status |-> IF last'.code = NullCode THEN 1
                                    ELSE last'.code]
          /\ bufferedCallback' # bufferedCallback
     /\ (bufferedCallback' # NoCallback /\ bufferedCallback' # bufferedCallback)
          => bufferedData' = <<>>
     /\ (bufferedCallback' = bufferedCallback /\ bufferedData' # bufferedData)
          => /\ last'.op = "stdout"
             /\ bufferedCallback # NoCallback
             /\ last'.args = ClientArgs(bufferedCallback)

\* C20: the callback of an accepted buffered command is called in one
\* step only, the close of the command's own process, once, with the
\* exit status (1 for none) and with the buffer, which was emptied when
\* the command started and since then took the output of that process
\* alone; until then the command is in flight or queued, afterwards
\* neither.
C20_BufferedDeliveredOnce == [][DeliversAtClose /\ Tracked']_vars

\* a queued command has just had its callback called with the two lines
\* its own process wrote, after an earlier command wrote output too
C20_Witness ==
  /\ last.op = "close"
  /\ \E k \in DOMAIN out :
        /\ out[k].t = "buffered"
        /\ out[k].cb = 2
        /\ out[k].data = <<"y", "z">>
        /\ out[k].status = 1
  /\ Len(accepted) >= 3

\* ------------------------------------------------------------------------
\* Delivery of streaming commands (checked under SpecGateway)
\* ------------------------------------------------------------------------
\* the calls of streaming callbacks among the effects of a step
StreamingCalls(o) == SelectSeq(o, LAMBDA e : e.t = "streaming")

\* what one step does to the streaming command in flight
StreamsThenEnds ==
  LET calls == StreamingCalls(out')
      mine == streamingCallback # NoCallback
              /\ last'.op \in {"stdout", "close"}
  IN /\ calls # <<>> <=> mine
     /\ mine =>
          /\ last'.args = ClientArgs(streamingCallback)
          /\ Len(calls) = 1
          /\ calls[1].cb = streamingCallback
     /\ (mine /\ last'.op = "stdout") =>
          /\ calls[1].data = Trim(last'.data)
          /\ calls[1].status = NullStatus
          /\ streamingCallback' = streamingCallback
     /\ (mine /\ last'.op = "close") =>
          /\ calls[1].data = <<>>
          /\ calls[1].status # NullStatus
          /\ calls[1].status = (IF last'.code = NullCode THEN 1
                                ELSE last'.code)
          /\ streamingCallback' = NoCallback
          /\ \A q \in DOMAIN commandQueue' :
                commandQueue'[q].handler # streamingCallback
     /\ (streamingCallback' # NoCallback
           /\ streamingCallback' # streamingCallback)
          => /\ last'.op = "runStreaming"
             /\ streamingCallback' = last'.id

\* C21: while a streaming command is in flight each chunk its process
\* writes is handed at once to its callback, trimmed, with null status;
\* the close of the process hands the callback one last call, with
\* empty data and the exit status, and takes the command out of flight,
\* so that nothing is delivered after it; no other step calls a streaming
\* callback.
C21_StreamingDelivery == [][StreamsThenEnds]_vars

\* the last call of a streaming command that had written output before
C21_Witness ==
  /\ last.op = "close"
  /\ last.chunks >= 1
  /\ \E k \in DOMAIN out :
        /\ out[k].t = "streaming"
        /\ out[k].data = <<>>
        /\ out[k].status = 0
  /\ streamingCallback = NoCallback

\* ------------------------------------------------------------------------
\* Accumulation of buffered output (checked under SpecGateway)
\* ------------------------------------------------------------------------
\* the lines of a complete output, the newline that ends it aside
LinesOf(text) == Split(TrimEnd(text))

\* the process of the buffered command in flight has just written its
\* second chunk, straight after its first
SecondChunk ==
  /\ last.op = "stdout"
  /\ last'.op = "stdout"
  /\ last'.args = last.args
  /\ bufferedCallback # NoCallback
  /\ ClientArgs(bufferedCallback) = last.args
  /\ procs'[1].chunks = 2

\* C22: when the output of a buffered command arrives in two chunks, the
\* buffer that will be handed to the callback holds the lines of the two
\* chunks put together, in the order they were written, a line that
\* spans the two chunks being one line.
C22_ChunksKeepOrder ==
  [][SecondChunk => bufferedData' = LinesOf(last.data \o last'.data)]_vars

\* ------------------------------------------------------------------------
\* Adapter calls made by state handlers (checked under SpecSilent)
\* ------------------------------------------------------------------------
\* the adapter calls of the last step that the adapter refused
Refused == { k \in DOMAIN out : out[k].t = "call" /\ out[k].ret = FALSE }

\* what happened inside the adapter call that returned at out[k]: the
\* handler that made it began at StartOf(k) and did nothing else before
DuringCall(k) == (StartOf(k) + 1)..(k - 1)

\* C23: an adapter request that is refused is told by its return value
\* alone: during the call no event is injected into the orchestrator and
\* no state change is announced.
C23_RefusalRaisesNoEvent ==
  \A k \in Refused :
     \A m \in DuringCall(k) : out[m].t \notin {"inject", "state"}

\* the events the orchestrator injects into itself from adapter callbacks
Controls ==
  {UpdateCheckSuccess, UpdateCheckFailure, DiscoverySuccess,
   DiscoveryFailure, ReprogrammingSuccess, ReprogrammingFailure}

\* how many injections are still being handled just before out[k]
Depth(k) ==
  Cardinality({ i \in 1..(k - 1) : out[i].t = "inject" })
    - Cardinality({ i \in 1..(k - 1) : out[i].t = "handled" })

\* the records of adapter callbacks
IsCallback(e) ==
  e.t \in {"buffered", "streaming", "serial", "list", "download"}

\* C24: an adapter calls back, and a control event is injected, only when
\* no handler and no enterState is running: never between the beginning
\* of an injection and its end.
C24_NoCallbackInsideHandler ==
  \A k \in DOMAIN out :
     (IsCallback(out[k]) \/ (out[k].t = "inject" /\ out[k].event \in Controls))
       => Depth(k) = 0

\* C25: when start returns, the version query runs, the device-list query
\* waits behind it in the queue, the only state change announced is the
\* one to Welcome, Enter was injected but no Exit, and the current state
\* is Welcome.
C25_StartEntersWelcome ==
  last.op = "start" =>
    /\ procs = <<[args |-> <<"-v">>, chunks |-> 0]>>
    /\ bufferedCallback = CbOnVersion
    /\ streamingCallback = NoCallback
    /\ commandQueue = <<[parameters |-> <<"-x">>, handler |-> CbOnDevices]>>
    /\ SelectSeq(out, LAMBDA e : e.t = "spawn")
         = <<[t |-> "spawn", args |-> <<"-v">>]>>
    /\ SelectSeq(out, LAMBDA e : e.t = "state")
         = <<[t |-> "state", state |-> Welcome]>>
    /\ SelectSeq(out, LAMBDA e : e.t = "inject")
         = <<[t |-> "inject", state |-> Welcome, event |-> Enter]>>
    /\ out[1].t = "spawn"
    /\ currentState = Welcome

\* start has just returned
C25_Witness ==
  /\ last.op = "start"
  /\ running
  /\ currentState = Welcome
  /\ Len(commandQueue) = 1

\* ------------------------------------------------------------------------
\* The state table as a unit: any state entered, any control event
\* injected, as the adapter callbacks inject them
\* ------------------------------------------------------------------------
CallInjectEvent ==
  /\ \E e \in Controls :
       /\ Step(InjectEvent(World, e))
       /\ last' = [op |-> "injectEvent", event |-> e]
  /\ UNCHANGED <<running, nextId, accepted, started>>

NextTable ==
  \/ FsmStart
  \/ ObserverCommand
  \/ ObserverConfig
  \/ CallEnterState
  \/ CallInjectEvent

SpecTable == InitFsm /\ [][NextTable]_vars

\* ------------------------------------------------------------------------
\* Properties of the state table (checked under SpecTable)
\* ------------------------------------------------------------------------
\* source, event, target
Edges ==
  { <<Welcome, Continue, CheckingForUpdate>>,
    <<CheckingForUpdate, UpdateCheckSuccess, ConnectPrompt>>,
    <<CheckingForUpdate, UpdateCheckFailure, CheckFailedCached>>,
    <<CheckFailedCached, Retry, CheckingForUpdate>>,
    <<CheckFailedOffline, Retry, CheckingForUpdate>>,
    <<CheckFailedCached, Continue, ConnectPrompt>>,
    <<ConnectPrompt, Continue, Detecting>>,
    <<ConnectPrompt, Retry, CheckingForUpdate>>,
    <<Detecting, DiscoverySuccess, DetectedAvailable>>,
    <<Detecting, DiscoveryFailure, DetectionFailed>>,
    <<DetectionFailed, Continue, DetectingManual>>,
    <<DetectionFailed, Retry, Detecting>>,
    <<DetectingManual, Connect, Detecting>>,
    <<DetectedAvailable, Install, Updating>>,
    <<Updating, ReprogrammingSuccess, UpdateComplete>>,
    <<Updating, ReprogrammingFailure, UpdateFailed>>,
    <<UpdateComplete, Restart, Welcome>>,
    <<UpdateFailed, Restart, Welcome>>,
    <<DetectedCurrent, Restart, Welcome>> }

\* the injections of o before o[k] with as many beginnings as ends between
\* them and o[k]; the last of them is the one whose handler runs at o[k]
OpenAt(o, k) ==
  { i \in 1..(k - 1) :
      /\ o[i].t = "inject"
      /\ Cardinality({ x \in (i + 1)..(k - 1) : o[x].t = "inject" })
           = Cardinality({ x \in (i + 1)..(k - 1) : o[x].t = "handled" }) }

\* every state change a handler asks for is an edge from the state the
\* event was injected in, which is still the current state (an injection
\* precedes o[k], so the state the step began in does not matter)
OnlyEdges(o) ==
  \A k \in DOMAIN o :
     (o[k].t = "state" /\ OpenAt(o, k) # {}) =>
        LET i == CHOOSE x \in OpenAt(o, k) : \A y \in OpenAt(o, k) : y <= x
        IN /\ <<o[i].state, o[i].event, o[k].state>> \in Edges
           /\ CurrentAt(o, Null, k) = o[i].state

\* the first thing the handler of an edge's event does is to announce the
\* change to the edge's target
EdgesTaken(o) ==
  \A i \in DOMAIN o : \A e \in Edges :
     (o[i].t = "inject" /\ o[i].state = e[1] /\ o[i].event = e[2]) =>
        /\ i + 1 <= Len(o)
        /\ o[i + 1] = [t |-> "state", state |-> e[3]]

\* C26: after start the state changes along the edges of the table only:
\* whatever a handler changes the state to is the target of the edge of
\* its state and event, and an event injected in the source state of one
\* of its edges changes the state to that edge's target.
C26_EdgesOfTheTable == OnlyEdges(out) /\ EdgesTaken(out)

\* Restart has just led from DetectedCurrent, which enterState was called
\* with, back to Welcome
C26_Witness ==
  /\ last = [op |-> "command", event |-> Restart]
  /\ currentState = Welcome
  /\ out[1] = [t |-> "inject", state |-> DetectedCurrent, event |-> Restart]

\* ------------------------------------------------------------------------
\* Responses divided at a line boundary (checked under SpecSession)
\* ------------------------------------------------------------------------
\* the last chunk of a response has just arrived and it is the prompt
\* alone: the chunk before it ended with the line break
SentinelAlone ==
  /\ last.op = "data"
  /\ last.rest = <<>>
  /\ last.data = Sentinel
  /\ Len(last.sent) > 1

\* C27: when the prompt that ends a response arrives as a chunk of its
\* own, that chunk completes the command: the callback gets the lines of
\* the whole response, once, the transport is closed and the session is
\* idle.
C27_SentinelChunkCompletes ==
  SentinelAlone =>
    /\ LET calls == SelectSeq(out, LAMBDA e : e.t = "serial")
       IN /\ Len(calls) = 1
          /\ calls[1].data = Split(last.sent)
    /\ port = NoPort
    /\ dataCallback = NoCallback
    /\ ports = <<>>

\* the request runCommand has just returned from is the one in progress,
\* and the next thing to happen is that its open or its write fails
FailsAfterReturn ==
  /\ last.op = "runCommand"
  /\ dataCallback = last.id
  /\ last'.op \in {"opened", "written"}
  /\ ~last'.ok

\* C28: a request whose open or write fails is a request runCommand
\* returned false for.
C28_FailureReturnsFalse == [][FailsAfterReturn => ret = FALSE]_vars

\* ------------------------------------------------------------------------
\* The queue of the gateway (checked under SpecGateway)
\* ------------------------------------------------------------------------
\* C29: after every request and every close, commands wait in the queue
\* only while a command is in flight.
C29_QueueOnlyWhileBusy == Len(commandQueue) > 0 => Busy

\* a close has just started the first of two queued commands, and the other
\* one is still waiting
C29_Witness ==
  /\ last.op = "close"
  /\ Len(commandQueue) = 1
  /\ bufferedCallback # NoCallback
  /\ \E k \in DOMAIN out : out[k].t = "spawn"

\* ------------------------------------------------------------------------
\* The gateway when every started process closes
\* ------------------------------------------------------------------------
\* the close event of a started process (GatewayClose), told by the record
\* it leaves in last; it is possible exactly when a process runs
GatewayProcessCloses ==
  /\ procs # <<>>
  /\ last' \in { [op |-> "close", args |-> procs[i].args, code |-> code,
                   chunks |-> procs[i].chunks] :
                     i \in DOMAIN procs, code \in ExitCodes }

SpecGatewayLive ==
  /\ InitGateway
  /\ [][NextGateway]_vars
  /\ WF_last(GatewayProcessCloses)

Started(id) == \E j \in DOMAIN started : started[j] = id

Idle == ~Busy /\ commandQueue = <<>> /\ procs = <<>>

\* C30: when processes close, a command that waits in the queue is
\* eventually started, by the gateway itself, and the gateway ends up idle
\* with an empty queue once the client asks for nothing more.
C30_QueueDrains ==
  /\ \A id \in 1..MaxRequests : Queued(id) ~> Started(id)
  /\ <>[]Idle

\* the gateway is idle again after commands that had waited in the queue
\* were started and closed
C30_Witness ==
  /\ Idle
  /\ last.op = "close"
  /\ Len(started) >= 3
  /\ Len(accepted) = Len(started)

\* ------------------------------------------------------------------------
\* Notifications and the current state (checked under SpecSilent)
\* ------------------------------------------------------------------------
\* the state-change notifications among the effects of a step
StateChanges(o) == SelectSeq(o, LAMBDA e : e.t = "state")

\* a step that sends no notification leaves the state alone, and the last
\* notification of a step names the state the step ends in
NotifiesCurrent ==
  LET sent == StateChanges(out')
  IN IF sent = <<>> THEN currentState' = currentState
     ELSE sent[Len(sent)].state = currentState'

\* C31: once an event has been processed, the state named by the last
\* state-change notification sent is the current state, a transition made
\* from inside the Enter action of another transition included.
C31_LastNotificationIsCurrent == [][NotifiesCurrent]_vars

\* Detecting was announced and then, from inside its Enter action,
\* DetectionFailed, which is the current state
C31_Witness ==
  /\ last.op = "command"
  /\ Len(StateChanges(out)) = 2
  /\ StateChanges(out)[1].state = Detecting
  /\ StateChanges(out)[2].state = DetectionFailed
  /\ currentState = DetectionFailed

\* ------------------------------------------------------------------------
\* The command channel carrying any message (checked under SpecChannel)
\* ------------------------------------------------------------------------
\* what the channel can carry besides the observer commands: one-element
\* messages naming a lifecycle or a control event, and a message with an
\* argument, which parseMessageAsNone rejects
ChannelMessages ==
  { <<e>> : e \in Events \ Commands } \cup { <<Continue, Continue>> }

\* a message that is not an observer command arrives on the command channel
ObserverMessage ==
  /\ running
  /\ \E data \in ChannelMessages :
       /\ Step(OnCommand(World, data))
       /\ last' = [op |-> "message", data |-> data]
  /\ UNCHANGED <<running, nextId, accepted, started>>

\* no adapter completes a request here: what follows a message is what the
\* message itself did
NextChannel ==
  \/ FsmStart
  \/ ObserverCommand
  \/ ObserverConfig
  \/ ObserverMessage

SpecChannel == InitFsm /\ [][NextChannel]_vars

\* the adapter calls made by the handlers among the effects of a step
AdapterCalls(o) == SelectSeq(o, LAMBDA e : e.t = "call")

\* C32: a message on the command channel that is not an observer command
\* causes no transition and makes no handler call an adapter: it acts
\* neither as a control event nor as the Timeout of DetectedAvailable.
C32_ChannelCarriesCommandsOnly ==
  last.op = "message" =>
    /\ StateChanges(out) = <<>>
    /\ AdapterCalls(out) = <<>>

\* ------------------------------------------------------------------------
\* States no transition leads to (checked under SpecSilent)
\* ------------------------------------------------------------------------
\* C33: CheckFailedOffline and DetectedCurrent are never the current state,
\* whatever the observer commands, the timers and the adapters do after
\* start().
C33_OfflineAndCurrentNeverEntered ==
  currentState \notin {CheckFailedOffline, DetectedCurrent}

\* a discovery has just succeeded: the state entered is DetectedAvailable
C33_Witness ==
  /\ last.op = "close"
  /\ \E k \in DOMAIN out :
        out[k] = [t |-> "inject", state |-> Detecting,
                  event |-> DiscoverySuccess]
  /\ currentState = DetectedAvailable

\* ------------------------------------------------------------------------
\* The device of the two adapters (checked under SpecSilent)
\* ------------------------------------------------------------------------
\* C34: once the gateway's active device and the debug session's device
\* are both set they are equal, whatever device lists and SelectedDevice
\* messages have arrived.
C34_AdaptersShareDevice ==
  (activeDevice # NullDevice /\ device # NullDevice) => activeDevice = device

\* ------------------------------------------------------------------------
\* Settle timers across visits (checked under SpecVisits)
\* ------------------------------------------------------------------------
\* a child process ends while settle timers of earlier visits are armed:
\* the discovery it reports may enter DetectedAvailable and arm one more
FsmCloseRevisit ==
  /\ \E i \in DOMAIN procs, code \in FsmExitCodes : ProcClose(i, code)
  /\ timers' <= MaxTimers + MaxStale
  /\ UNCHANGED <<running, nextId, accepted, started>>

NextVisits ==
  \/ FsmStart
  \/ ObserverCommand
  \/ ObserverConfig
  \/ TimerFire
  \/ FsmStdout
  \/ FsmCloseRevisit
  \/ RepoListDone
  \/ RepoDownloadDone

SpecVisits == InitFsm /\ [][NextVisits]_vars

\* the step just taken was the Timeout action of DetectedAvailable: the
\* product details were sent and the firmware version was requested
TimeoutActed ==
  /\ last.op = "timeout"
  /\ currentState = DetectedAvailable
  /\ \E k \in DOMAIN out :
        out[k].t = "config" /\ out[k].config = ProductDetails
  /\ \E k \in DOMAIN out : out[k].t = "call" /\ out[k].op = "runCommand"

\* C35: within one visit to DetectedAvailable the Timeout action is not
\* performed a second time: a step that performed it is not followed, in
\* the same visit, by another step that performs it.
C35_TimeoutOncePerVisit == [][~(TimeoutActed /\ TimeoutActed')]_vars

\* ------------------------------------------------------------------------
\* Control events and the state they are meant for (checked under
\* SpecSilent, where the observer sends observer commands only)
\* ------------------------------------------------------------------------
\* the state whose request a control event is the outcome of
Awaiting(event) ==
  CASE event \in {UpdateCheckSuccess, UpdateCheckFailure} -> CheckingForUpdate
    [] event \in {DiscoverySuccess, DiscoveryFailure} -> Detecting
    [] event \in {ReprogrammingSuccess, ReprogrammingFailure} -> Updating

\* the injections of control events among the effects of a step
Outcomes(o) ==
  SelectSeq(o, LAMBDA e : e.t = "inject" /\ e.event \in Controls)

\* C36: a control event is injected only while the current state is the
\* one that requested its outcome (CheckingForUpdate, Detecting, Updating);
\* one completion injects at most one control event, and the event ends
\* the visit, so that no visit receives a second one.
C36_NoStaleOutcome ==
  /\ \A k \in DOMAIN out :
        (out[k].t = "inject" /\ out[k].event \in Controls)
          => out[k].state = Awaiting(out[k].event)
  /\ \A k \in DOMAIN out :
        (out[k].t = "handled" /\ out[k].event \in Controls)
          => out[k].now # out[k].state
  /\ Len(Outcomes(out)) <= 1

\* CheckingForUpdate is visited again, after a visit to DetectedAvailable
\* whose timer is still armed, and receives the outcome of its own check
C36_Witness ==
  /\ timers > 0
  /\ last.op \in {"list", "download"}
  /\ Len(Outcomes(out)) = 1
  /\ Outcomes(out)[1].state = CheckingForUpdate
  /\ currentState \in {ConnectPrompt, CheckFailedCached}

\* ------------------------------------------------------------------------
\* The gateway on entry to Updating (checked under SpecSilent)
\* ------------------------------------------------------------------------
\* Updating is entered in this step
EntersUpdating ==
  \E k \in DOMAIN out' : out'[k] = [t |-> "state", state |-> Updating]

\* C37: when Updating is entered the gateway has an active device, runs
\* no command and has an empty queue, and the reprogApp call of the Enter
\* action returns true.
C37_UpdatingFindsGatewayFree ==
  [][EntersUpdating =>
       /\ activeDevice # NullDevice
       /\ bufferedCallback = NoCallback
       /\ streamingCallback = NoCallback
       /\ commandQueue = <<>>
       /\ \E k \in DOMAIN out' :
             out'[k] = [t |-> "call", op |-> "reprogApp", ret |-> TRUE]
       /\ streamingCallback' = CbOnReprogramming]_vars

\* Install has been handled in DetectedAvailable, while the settle timer
\* was still armed, and the reprogramming stream runs
C37_Witness ==
  /\ last = [op |-> "command", event |-> Install]
  /\ currentState = Updating
  /\ timers > 0
  /\ streamingCallback = CbOnReprogramming
  /\ \E k \in DOMAIN out :
        out[k] = [t |-> "call", op |-> "reprogApp", ret |-> TRUE]

\* ------------------------------------------------------------------------
\* The progress value (checked under SpecProgress)
\* ------------------------------------------------------------------------
\* what the utility may print while it reprograms: any line count
ProgressChunks ==
  { <<progressTag, " ", n, "\n">> : n \in DOMAIN NumberOf }

\* the child process writes to stdout; the reprogramming run reports any
\* line count
FsmStdoutProgress ==
  /\ \E i \in DOMAIN procs :
       /\ procs[i].chunks < MaxOutput
       /\ \E data \in IF procs[i].args[1] = "-p " THEN ProgressChunks
                      ELSE ChunksFor(procs[i].args) : ProcStdout(i, data)
  /\ timers' <= MaxTimers
  /\ UNCHANGED <<running, nextId, accepted, started>>

NextProgress ==
  \/ FsmStart
  \/ ObserverCommand
  \/ ObserverConfig
  \/ TimerFire
  \/ FsmStdoutProgress
  \/ FsmClose
  \/ RepoListDone
  \/ RepoDownloadDone

SpecProgress == InitFsm /\ [][NextProgress]_vars

\* v is x / y rounded to the nearest integer, halves upwards
IsRounded(v, x, y) == 2 * y * v - y <= 2 * x /\ 2 * x < 2 * y * v + y

\* C38: a progress notification carries the line count of the chunk times
\* 100 / 30000, rounded, and that value lies between 0 and 100.
C38_ProgressIsPercentage ==
  \A k \in DOMAIN out :
     (IsProgress(out[k]) /\ last.op = "stdout") =>
        /\ IsRounded(out[k].value, NumberOf[last.data[3]] * 100, 30000)
        /\ out[k].value \in 0..100

\* ------------------------------------------------------------------------
\* The onStateChange hook (checked under SpecSilent)
\* ------------------------------------------------------------------------
\* the calls of the hook among the effects of a step
HookCalls(o) == SelectSeq(o, LAMBDA e : e.t = "hook")

\* C39: with a hook installed, once an event has been processed the state
\* most recently passed to the hook is the current state, and the states
\* passed to the hook during the event are those announced, in the order
\* in which they became current.
C39_HookFollowsState ==
  onStateChange =>
    /\ HookCalls(out) # <<>> =>
         HookCalls(out)[Len(HookCalls(out))].state = currentState
    /\ Len(HookCalls(out)) = Len(StateChanges(out))
    /\ \A k \in DOMAIN HookCalls(out) :
          HookCalls(out)[k].state = StateChanges(out)[k].state

\* ------------------------------------------------------------------------
\* The debug session when the transport answers
\* ------------------------------------------------------------------------
\* a callback of the transport that is due (SessionOpenDone,
\* SessionWriteDone, SessionData), told by the record it leaves in last
TransportAnswers ==
  \E i \in DOMAIN ports :
     \/ /\ ports[i].status = "opening"
        /\ last' \in { [op |-> "opened", ok |-> b] : b \in BOOLEAN }
     \/ /\ ports[i].status \in {"open", "failed"}
        /\ ports[i].write = "pending"
        /\ last' \in { [op |-> "written", ok |-> b] :
                         b \in IF ports[i].status = "open" THEN BOOLEAN
                               ELSE {FALSE} }
     \/ /\ ports[i].status = "open"
        /\ last' \in { [op |-> "data", data |-> SubSeq(ports[i].wire, 1, n),
                        no |-> ports[i].chunks + 1, sent |-> ports[i].sent,
                        rest |-> SubSeq(ports[i].wire, n + 1,
                                        Len(ports[i].wire))] :
                         n \in 1..Len(ports[i].wire) }

SpecSessionLive ==
  /\ InitSession
  /\ [][NextSession]_vars
  /\ WF_last(TransportAnswers)

\* the transport of the command in progress has reported an error
TransportFailed ==
  /\ port # NoPort
  /\ ports[port].status = "failed" \/ ports[port].write = "failed"

\* C40: when the transport answers every request made of it, a debug
\* session whose open or write has failed is eventually idle again.
C40_FailedSessionIsReleased == TransportFailed ~> (port = NoPort)

=============================================================================
